---- MODULE Spec2Model ----
(***************************************************************************)
(* Credential acquisition of AvnetScraper: the TTL-backed token cache      *)
(* (ConfigManager / AuthTokenManager in main.py) and the browser session   *)
(* that scrapes a fresh token (AvnetTokenScraper in modules/token_fetch.py)*)
(*                                                                         *)
(* Python values that may be None are modelled as options: <<>> is None    *)
(* and <<x>> is the value x.  Time is the integer number of seconds that   *)
(* time.time() reads.                                                      *)
(***************************************************************************)
EXTENDS Integers, Sequences, FiniteSets, TLC

VARIABLES
    now,           \* what time.time() reads
    data_token,    \* ConfigManager.data.get("token"): None or a dict
    file,          \* the config file on disk: [intact, token]
    auth_token,    \* AuthTokenManager.auth_token
    lastCall,      \* how the most recent get_token call went
    scrapers,      \* AvnetTokenScraper objects constructed by get_token
    openSessions,  \* browser instances created and not yet quit
    calls,         \* get_token calls made
    ticks,         \* clock advances taken
    pc,            \* position of the running scrape
    driver,        \* scraper.driver is not None
    trace,         \* browser operations of the running scrape, in order
    det,           \* the most recent run of _check_for_challenge
    elem,          \* the located randomVal element and how its read went
    new_token,     \* what scrape_random_value returned
    quitCalls,     \* driver.quit() calls made for the running scraper
    scripts,       \* runs of token_fetch's __main__ block started
    setups,        \* webdriver.Chrome(...) calls made for the running scraper
    faults,        \* what was raised or timed out in the running scrape
    cfgFile,       \* config.json: None when missing, else its characters
    cfgData,       \* ConfigManager.data, None when no ConfigManager exists
    cfgLast,       \* the last ConfigManager operation and how it ended
    cfgSaved,      \* the token entry the file holds from a completed save
    cfgSaves,      \* set_token_data calls made
    cfgLoads,      \* ConfigManager constructions made
    appPc,         \* where ProductUpdaterApp.run stands
    appLog,        \* what run has done so far, in order
    codes,         \* the product codes read from the sheet
    fi,            \* fetch_multiple_products: position in the list of codes
    results        \* fetch_multiple_products: the results dict, in order

tokenVars == <<data_token, file, auth_token, lastCall, scrapers, calls,
               ticks>>
acquirerVars == <<now, tokenVars>>
scraperVars == <<pc, driver, trace, det, elem, new_token, quitCalls, scripts,
                 setups, faults>>
configVars == <<cfgFile, cfgData, cfgLast, cfgSaved, cfgSaves, cfgLoads>>

appVars == <<appPc, appLog, codes, fi, results>>

vars == <<acquirerVars, openSessions, scraperVars, configVars, appVars>>

----------------------------------------------------------------------------
(* Bounds of the model *)

MaxCalls == 2
MaxScripts == 1
MaxTicks == 2

----------------------------------------------------------------------------
(* Constants of the program *)

TOKEN_EXPIRATION_SECONDS == 30 * 60

HOLD_SECONDS == 60

\* the substrings _check_for_challenge looks for in driver.current_url
UrlFragments == {"cdn-cgi", "challenge", "captcha"}

\* the seven expected conditions of the EC.any_of in _check_for_challenge
Signals == {"title:Just a moment...", "body:Access Denied",
            "body:Verify you are human", "id:cf-browser-verification",
            "class:g-recaptcha", "text:Please wait...",
            "text:Checking your browser"}

----------------------------------------------------------------------------
(* Python values *)

None == <<>>
Some(x) == <<x>>

\* truth value of an optional string: None and "" are falsy
TruthyStr(o) == o # None /\ o[1] # ""

\* truth value of an optional number: None and 0 are falsy
TruthyNum(o) == o # None /\ o[1] # 0

\* truth value of token_data: None and the empty dict are falsy
TruthyDict(o) == o # None /\ ~(o[1].value = None /\ o[1].sourced_at = None)

Dict(v, s) == Some([value |-> v, sourced_at |-> s])

----------------------------------------------------------------------------
(* The environment the inputs are drawn from *)

\* URLs the browser can be at: the target, and one per challenge fragment
Urls == {[text |-> "https://www.avnet.com/americas/", has |-> {}],
         [text |-> "https://www.avnet.com/cdn-cgi/l/chk", has |-> {"cdn-cgi"}],
         [text |-> "https://www.avnet.com/challenge", has |-> {"challenge"}],
         [text |-> "https://www.avnet.com/captcha", has |-> {"captcha"}]}

\* what self.wait.until(EC.any_of(...)) does: one condition holds, or the
\* wait times out, or something else is raised
Probes == Signals \cup {"timeout", "error"}

\* what get_attribute returns
AttrValues(name) == {None, Some(""), Some(name)}

\* where reading the element's attributes raises, if anywhere
AttrErrors == {"none", "value", "placeholder", "data-value"}

ClockSteps == {1, TOKEN_EXPIRATION_SECONDS - 1, TOKEN_EXPIRATION_SECONDS}

Now0 == TOKEN_EXPIRATION_SECONDS

InitTokens ==
    {None} \cup
    {Dict(v, s) : v \in {None, Some(""), Some("tok0")},
                  s \in {None, Some(0), Some(1), Some(Now0)}}

NoDet == [ran |-> FALSE, probe |-> "timeout", url |-> {}, urlErr |-> FALSE,
          verdict |-> FALSE]
NoElem == [found |-> FALSE, value |-> None, placeholder |-> None,
           data_value |-> None, errAt |-> "none"]

\* how the try block of _setup_driver can end: webdriver.Chrome raises
\* (webdriver_exception, other_exception), or it returns a browser and a
\* later statement of the block, such as a script of
\* _apply_stealth_scripts, raises (stealth_...), or nothing raises
SetupOutcomes == {"ok", "webdriver_exception", "other_exception",
                  "stealth_webdriver_exception", "stealth_other_exception"}

\* webdriver.Chrome returned: a browser is running
BrowserStarted(setup) ==
    setup \in {"ok", "stealth_webdriver_exception",
               "stealth_other_exception"}

\* what was raised is no WebDriverException: it leaves the constructor
ConstructorRaises(setup) ==
    setup \in {"other_exception", "stealth_other_exception"}

NoCfgOp == [op |-> "none", outcome |-> "none", before |-> None,
            entry |-> None, opens |-> 0]

NoCall == [path |-> "none", valid |-> FALSE, setup |-> "n/a",
           extracted |-> None, outcome |-> "none", ret |-> None,
           writes |-> 0, save |-> "n/a", closes |-> 0, built |-> 0,
           scrapes |-> 0, held |-> None,
           had |-> None,
           at |-> 0]

\* what scrape_random_value can return: None or a non-empty attribute
ScrapeResults == {None, Some("valA"), Some("phB"), Some("dvC")}

\* the timeout of self.wait = WebDriverWait(self.driver, 20)
WAIT_SECONDS == 20

\* time.sleep(random.uniform(2.5, 4.5)) after the navigation, in whole
\* seconds
ReadingSeconds == 3..4

\* the sleeps of _simulate_human_behavior, in whole seconds: three of
\* 0.5-1.5 s before the first scroll, one of 1-2 s before the second, one
\* of 0.5-1 s after it
HumanSeconds(outcome) ==
    CASE outcome = "error_down" -> 2..4
      [] outcome = "error_top" -> 3..6
      [] outcome = "ok" -> 3..7

\* a wait.until takes the whole timeout when it times out, and up to the
\* timeout otherwise
WaitSeconds(timedOut) ==
    IF timedOut THEN {WAIT_SECONDS} ELSE 0..WAIT_SECONDS

\* time.sleep(random.uniform(1, 2)) of close(), in whole seconds
ClosingSeconds == 1..2

\* the least time a scrape that returns a value has slept: the reading
\* delay and the sleeps of _simulate_human_behavior
MinValueSeconds == 6

\* seconds a scrape can take: none when the navigation fails at once or
\* there is no driver, and a run on a clear page, which sleeps some 10 s
\* and waits out the 20 s of the detector
ScrapeSeconds == {0, 10 + WAIT_SECONDS}

\* the durations the steps of a scrape are given
ReadingPicks == {0} \cup ReadingSeconds
WaitPicks == {0, WAIT_SECONDS}
HumanPicks == {3, 7}
ClosingPicks == {0} \cup ClosingSeconds

\* the time a scrape takes goes with what it does: a scraper without a
\* driver returns at once, a scrape that returns a value has slept
ScrapeTimeOk(setup, result, seconds) ==
    /\ seconds >= 0
    /\ setup # "ok" => seconds = 0
    /\ (setup = "ok" /\ TruthyStr(result)) => seconds >= MinValueSeconds

----------------------------------------------------------------------------
(* AuthTokenManager._is_token_valid *)

_is_token_valid_off_by_one(token_data, t) ==
    IF ~TruthyDict(token_data) THEN FALSE
    ELSE LET value == token_data[1].value
             sourced_at == token_data[1].sourced_at
         IN  IF ~TruthyStr(value) \/ ~TruthyNum(sourced_at) THEN FALSE
             ELSE IF t - sourced_at[1] >= TOKEN_EXPIRATION_SECONDS THEN FALSE
             ELSE TRUE

_is_token_valid_ttl_only(token_data, t) ==
    IF token_data = None THEN FALSE
    ELSE LET value == token_data[1].value
             sourced_at == token_data[1].sourced_at
         IN  IF ~TruthyStr(value) \/ sourced_at = None THEN FALSE
             ELSE IF t - sourced_at[1] > TOKEN_EXPIRATION_SECONDS THEN FALSE
             ELSE TRUE

_is_token_valid(token_data, t) ==
    IF ~TruthyDict(token_data) THEN FALSE
    ELSE LET value == token_data[1].value
             sourced_at == token_data[1].sourced_at
         IN  IF ~TruthyStr(value) \/ ~TruthyNum(sourced_at) THEN FALSE
             ELSE IF t - sourced_at[1] > TOKEN_EXPIRATION_SECONDS THEN FALSE
             ELSE TRUE

----------------------------------------------------------------------------
(* AvnetTokenScraper._check_for_challenge *)

UrlIsChallenge(url) == \E f \in UrlFragments : f \in url.has

_check_for_challenge_timeout_is_challenge(drv, probe, url, urlErr) ==
    IF ~drv THEN FALSE
    ELSE IF probe = "timeout" THEN TRUE
    ELSE IF probe = "error" THEN FALSE
    ELSE IF urlErr THEN FALSE
    ELSE IF UrlIsChallenge(url) THEN TRUE
    ELSE TRUE

_check_for_challenge_error_is_challenge(drv, probe, url, urlErr) ==
    IF ~drv THEN FALSE
    ELSE IF probe = "timeout" THEN FALSE
    ELSE IF probe = "error" THEN TRUE
    ELSE IF urlErr THEN TRUE
    ELSE IF UrlIsChallenge(url) THEN TRUE
    ELSE TRUE

_check_for_challenge(drv, probe, url, urlErr) ==
    IF ~drv THEN FALSE
    ELSE IF probe = "timeout" THEN FALSE       \* except TimeoutException
    ELSE IF probe = "error" THEN FALSE         \* except Exception
    ELSE IF urlErr THEN FALSE                  \* current_url raised
    ELSE IF UrlIsChallenge(url) THEN TRUE
    ELSE TRUE

----------------------------------------------------------------------------
(* The value/placeholder/data-value fallback of scrape_random_value *)

ExtractAttr_placeholder_first(value, placeholder, data_value, errAt) ==
    IF errAt = "value" THEN None
    ELSE IF errAt \in {"placeholder", "data-value"} /\ ~TruthyStr(value)
         THEN None
    ELSE IF TruthyStr(placeholder) THEN placeholder
    ELSE IF TruthyStr(value) THEN value
    ELSE IF TruthyStr(data_value) THEN data_value
    ELSE None

ExtractAttr(value, placeholder, data_value, errAt) ==
    IF errAt = "value" THEN None
    ELSE IF TruthyStr(value) THEN value
    ELSE IF errAt \in {"placeholder", "data-value"} THEN None
    ELSE IF TruthyStr(placeholder) THEN placeholder
    ELSE IF TruthyStr(data_value) THEN data_value
    ELSE None

----------------------------------------------------------------------------
(* ConfigManager._save_config: what the file holds after the write *)

SaveOutcomes == {"ok", "open_fail", "dump_fail"}

_save_config(f, token, outcome) ==
    CASE outcome = "ok"        -> [intact |-> TRUE, token |-> token]
      [] outcome = "open_fail" -> f
      [] outcome = "dump_fail" -> [intact |-> FALSE, token |-> None]

----------------------------------------------------------------------------
(* The token cache: AuthTokenManager over ConfigManager (main.py).  One    *)
(* get_token call is one step; the scrape it makes is summarised by what   *)
(* the scraper's construction did, what scrape_random_value returned and   *)
(* how long it took.                                                       *)

Init ==
    /\ now = Now0
    /\ data_token \in InitTokens
    /\ file = [intact |-> TRUE, token |-> data_token]
    /\ auth_token = None
    /\ lastCall = NoCall
    /\ scrapers = 0
    /\ openSessions = 0
    /\ calls = 0
    /\ ticks = 0
    /\ pc = "idle"
    /\ driver = FALSE
    /\ trace = <<>>
    /\ det = NoDet
    /\ elem = NoElem
    /\ new_token = None
    /\ quitCalls = 0
    /\ scripts = 0
    /\ setups = 0
    /\ faults = {}
    /\ cfgFile = None
    /\ cfgData = None
    /\ cfgLast = NoCfgOp
    /\ cfgSaved = None
    /\ cfgSaves = 0
    /\ cfgLoads = 0
    /\ appPc = "start"
    /\ appLog = <<>>
    /\ codes = <<>>
    /\ fi = 1
    /\ results = <<>>

\* time passes between two get_token calls
Tick(d) ==
    /\ ticks < MaxTicks
    /\ now' = now + d
    /\ ticks' = ticks + 1
    /\ UNCHANGED <<data_token, file, auth_token, lastCall, scrapers,
                   openSessions, calls, scraperVars, configVars, appVars>>

\* the end of get_token: raise when no token is held, else return it
GetTokenEnd(auth) ==
    IF auth = None THEN [outcome |-> "raised", ret |-> None]
    ELSE [outcome |-> "returned", ret |-> auth]

\* get_token, the branch of a valid cached token, with a needless save
get_token_cached_saves ==
    /\ calls < MaxCalls
    /\ _is_token_valid(data_token, now)
    /\ calls' = calls + 1
    /\ auth_token' = data_token[1].value
    /\ data_token' = Dict(data_token[1].value, Some(now))
    /\ file' = _save_config(file, data_token', "ok")
    /\ lastCall' = [path |-> "fast", valid |-> TRUE, setup |-> "n/a",
                    extracted |-> None,
                    outcome |-> GetTokenEnd(auth_token').outcome,
                    ret |-> GetTokenEnd(auth_token').ret,
                    writes |-> 1, save |-> "ok", closes |-> 0,
                    built |-> 0, scrapes |-> 0,
                    held |-> auth_token, had |-> data_token, at |-> now]
    /\ UNCHANGED <<now, scrapers, openSessions, ticks, scraperVars,
                   configVars, appVars>>

\* get_token, the branch of a valid cached token
get_token_cached ==
    /\ calls < MaxCalls
    /\ _is_token_valid(data_token, now)
    /\ calls' = calls + 1
    /\ auth_token' = data_token[1].value
    /\ lastCall' = [path |-> "fast", valid |-> TRUE, setup |-> "n/a",
                    extracted |-> None,
                    outcome |-> GetTokenEnd(auth_token').outcome,
                    ret |-> GetTokenEnd(auth_token').ret,
                    writes |-> 0, save |-> "n/a", closes |-> 0,
                    built |-> 0, scrapes |-> 0,
                    held |-> auth_token, had |-> data_token, at |-> now]
    /\ UNCHANGED <<now, data_token, file, scrapers, openSessions, ticks,
                   scraperVars, configVars, appVars>>

\* a refresh in which a failed save reaches the except clause
_refresh_token_save_raises(setup, result, seconds, saveOutcome) ==
    LET extracted == IF setup = "ok" THEN result ELSE None
    IN  /\ ScrapeTimeOk(setup, result, seconds)
        /\ now' = now + seconds
        /\ scrapers' = IF ConstructorRaises(setup) THEN scrapers
                       ELSE scrapers + 1
        /\ openSessions' = IF BrowserStarted(setup) THEN openSessions + 1
                           ELSE openSessions
        /\ IF ConstructorRaises(setup)
           THEN \* except Exception: self.auth_token = None
                /\ auth_token' = None
                /\ UNCHANGED <<data_token, file>>
           ELSE IF TruthyStr(extracted)
           THEN \* set_token_data(new_token, time.time())
                /\ data_token' = Dict(extracted, Some(now'))
                /\ file' = _save_config(file, data_token', saveOutcome)
                /\ auth_token' = IF saveOutcome = "ok" THEN extracted
                                 ELSE None
           ELSE UNCHANGED <<data_token, file, auth_token>>
        /\ lastCall' = [path |-> "refresh", valid |-> FALSE, setup |-> setup,
                        extracted |-> extracted,
                        outcome |-> GetTokenEnd(auth_token').outcome,
                        ret |-> GetTokenEnd(auth_token').ret,
                        writes |-> IF TruthyStr(extracted) THEN 1 ELSE 0,
                        save |-> IF TruthyStr(extracted) THEN saveOutcome
                                 ELSE "n/a",
                        closes |-> 0,   \* _refresh_token has no close()
                        built |-> 1,
                        scrapes |-> IF ConstructorRaises(setup) THEN 0
                                    ELSE 1,
                        held |-> auth_token, had |-> data_token,
                        at |-> now]

\* a refresh that stores whatever the scrape returned
_refresh_token_stores_none(setup, result, seconds, saveOutcome) ==
    LET extracted == IF setup = "ok" THEN result ELSE None
    IN  /\ ScrapeTimeOk(setup, result, seconds)
        /\ now' = now + seconds
        /\ scrapers' = IF ConstructorRaises(setup) THEN scrapers
                       ELSE scrapers + 1
        /\ openSessions' = IF BrowserStarted(setup) THEN openSessions + 1
                           ELSE openSessions
        /\ IF ConstructorRaises(setup)
           THEN \* except Exception: self.auth_token = None
                /\ auth_token' = None
                /\ UNCHANGED <<data_token, file>>
           ELSE IF TruthyStr(extracted)
           THEN \* set_token_data(new_token, time.time())
                /\ data_token' = Dict(extracted, Some(now'))
                /\ file' = _save_config(file, data_token', saveOutcome)
                /\ auth_token' = extracted
           ELSE /\ data_token' = Dict(extracted, Some(now'))
                /\ file' = _save_config(file, data_token', saveOutcome)
                /\ UNCHANGED auth_token
        /\ lastCall' = [path |-> "refresh", valid |-> FALSE, setup |-> setup,
                        extracted |-> extracted,
                        outcome |-> GetTokenEnd(auth_token').outcome,
                        ret |-> GetTokenEnd(auth_token').ret,
                        writes |-> IF ConstructorRaises(setup) THEN 0
                                   ELSE 1,
                        save |-> IF ConstructorRaises(setup) THEN "n/a"
                                 ELSE saveOutcome,
                        closes |-> 0,   \* _refresh_token has no close()
                        built |-> 1,
                        scrapes |-> IF ConstructorRaises(setup) THEN 0
                                    ELSE 1,
                        held |-> auth_token, had |-> data_token,
                        at |-> now]

\* a refresh that stamps the token with the time the scrape began
_refresh_token_stamps_start(setup, result, seconds, saveOutcome) ==
    LET extracted == IF setup = "ok" THEN result ELSE None
    IN  /\ ScrapeTimeOk(setup, result, seconds)
        /\ now' = now + seconds
        /\ scrapers' = IF ConstructorRaises(setup) THEN scrapers
                       ELSE scrapers + 1
        /\ openSessions' = IF BrowserStarted(setup) THEN openSessions + 1
                           ELSE openSessions
        /\ IF ConstructorRaises(setup)
           THEN \* except Exception: self.auth_token = None
                /\ auth_token' = None
                /\ UNCHANGED <<data_token, file>>
           ELSE IF TruthyStr(extracted)
           THEN \* set_token_data(new_token, time.time())
                /\ data_token' = Dict(extracted, Some(now))
                /\ file' = _save_config(file, data_token', saveOutcome)
                /\ auth_token' = extracted
           ELSE UNCHANGED <<data_token, file, auth_token>>
        /\ lastCall' = [path |-> "refresh", valid |-> FALSE, setup |-> setup,
                        extracted |-> extracted,
                        outcome |-> GetTokenEnd(auth_token').outcome,
                        ret |-> GetTokenEnd(auth_token').ret,
                        writes |-> IF TruthyStr(extracted) THEN 1 ELSE 0,
                        save |-> IF TruthyStr(extracted) THEN saveOutcome
                                 ELSE "n/a",
                        closes |-> 0,   \* _refresh_token has no close()
                        built |-> 1,
                        scrapes |-> IF ConstructorRaises(setup) THEN 0
                                    ELSE 1,
                        held |-> auth_token, had |-> data_token,
                        at |-> now]

\* a refresh that scrapes a second time when the first scrape gave nothing
_refresh_token_retries(setup, result, seconds, saveOutcome) ==
    LET extracted == IF setup = "ok" THEN result ELSE None
    IN  /\ ScrapeTimeOk(setup, result, seconds)
        /\ now' = now + seconds
        /\ scrapers' = IF ConstructorRaises(setup) THEN scrapers
                       ELSE IF TruthyStr(extracted) THEN scrapers + 1
                       ELSE scrapers + 2
        /\ openSessions' = IF ~BrowserStarted(setup) THEN openSessions
                           ELSE IF setup # "ok" \/ TruthyStr(extracted)
                           THEN openSessions + 1
                           ELSE openSessions + 2
        /\ IF ConstructorRaises(setup)
           THEN \* except Exception: self.auth_token = None
                /\ auth_token' = None
                /\ UNCHANGED <<data_token, file>>
           ELSE IF TruthyStr(extracted)
           THEN \* set_token_data(new_token, time.time())
                /\ data_token' = Dict(extracted, Some(now'))
                /\ file' = _save_config(file, data_token', saveOutcome)
                /\ auth_token' = extracted
           ELSE UNCHANGED <<data_token, file, auth_token>>
        /\ lastCall' = [path |-> "refresh", valid |-> FALSE, setup |-> setup,
                        extracted |-> extracted,
                        outcome |-> GetTokenEnd(auth_token').outcome,
                        ret |-> GetTokenEnd(auth_token').ret,
                        writes |-> IF TruthyStr(extracted) THEN 1 ELSE 0,
                        save |-> IF TruthyStr(extracted) THEN saveOutcome
                                 ELSE "n/a",
                        closes |-> 0,   \* _refresh_token has no close()
                        built |-> IF ConstructorRaises(setup)
                                     \/ TruthyStr(extracted) THEN 1 ELSE 2,
                        scrapes |-> IF ConstructorRaises(setup) THEN 0
                                    ELSE IF TruthyStr(extracted) THEN 1
                                    ELSE 2,
                        held |-> auth_token, had |-> data_token,
                        at |-> now]

\* a refresh that keeps the time stamp of the token it replaces
_refresh_token_keeps_stamp(setup, result, seconds, saveOutcome) ==
    LET extracted == IF setup = "ok" THEN result ELSE None
    IN  /\ ScrapeTimeOk(setup, result, seconds)
        /\ now' = now + seconds
        /\ scrapers' = IF ConstructorRaises(setup) THEN scrapers
                       ELSE scrapers + 1
        /\ openSessions' = IF BrowserStarted(setup) THEN openSessions + 1
                           ELSE openSessions
        /\ IF ConstructorRaises(setup)
           THEN \* except Exception: self.auth_token = None
                /\ auth_token' = None
                /\ UNCHANGED <<data_token, file>>
           ELSE IF TruthyStr(extracted)
           THEN \* set_token_data(new_token, time.time())
                /\ data_token' =
                     Dict(extracted,
                          IF data_token # None
                             /\ data_token[1].sourced_at # None
                          THEN data_token[1].sourced_at ELSE Some(now'))
                /\ file' = _save_config(file, data_token', saveOutcome)
                /\ auth_token' = extracted
           ELSE UNCHANGED <<data_token, file, auth_token>>
        /\ lastCall' = [path |-> "refresh", valid |-> FALSE, setup |-> setup,
                        extracted |-> extracted,
                        outcome |-> GetTokenEnd(auth_token').outcome,
                        ret |-> GetTokenEnd(auth_token').ret,
                        writes |-> IF TruthyStr(extracted) THEN 1 ELSE 0,
                        save |-> IF TruthyStr(extracted) THEN saveOutcome
                                 ELSE "n/a",
                        closes |-> 0,   \* _refresh_token has no close()
                        built |-> 1,
                        scrapes |-> IF ConstructorRaises(setup) THEN 0
                                    ELSE 1,
                        held |-> auth_token, had |-> data_token,
                        at |-> now]

\* _refresh_token: construct a scraper, scrape, store a truthy result.
\* setup is what the constructor did, result what scrape_random_value
\* returns from a live driver, seconds the time the scrape takes.
_refresh_token(setup, result, seconds, saveOutcome) ==
    LET extracted == IF setup = "ok" THEN result ELSE None
    IN  /\ ScrapeTimeOk(setup, result, seconds)
        /\ now' = now + seconds
        /\ scrapers' = IF ConstructorRaises(setup) THEN scrapers
                       ELSE scrapers + 1
        /\ openSessions' = IF BrowserStarted(setup) THEN openSessions + 1
                           ELSE openSessions
        /\ IF ConstructorRaises(setup)
           THEN \* except Exception: self.auth_token = None
                /\ auth_token' = None
                /\ UNCHANGED <<data_token, file>>
           ELSE IF TruthyStr(extracted)
           THEN \* set_token_data(new_token, time.time())
                /\ data_token' = Dict(extracted, Some(now'))
                /\ file' = _save_config(file, data_token', saveOutcome)
                /\ auth_token' = extracted
           ELSE UNCHANGED <<data_token, file, auth_token>>
        /\ lastCall' = [path |-> "refresh", valid |-> FALSE, setup |-> setup,
                        extracted |-> extracted,
                        outcome |-> GetTokenEnd(auth_token').outcome,
                        ret |-> GetTokenEnd(auth_token').ret,
                        writes |-> IF TruthyStr(extracted) THEN 1 ELSE 0,
                        save |-> IF TruthyStr(extracted) THEN saveOutcome
                                 ELSE "n/a",
                        closes |-> 0,   \* _refresh_token has no close()
                        built |-> 1,
                        scrapes |-> IF ConstructorRaises(setup) THEN 0
                                    ELSE 1,
                        held |-> auth_token, had |-> data_token,
                        at |-> now]

\* get_token, the branch of a missing or expired token
get_token_refresh(setup, result, seconds, saveOutcome) ==
    /\ calls < MaxCalls
    /\ ~_is_token_valid(data_token, now)
    /\ calls' = calls + 1
    /\ _refresh_token(setup, result, seconds, saveOutcome)
    /\ UNCHANGED <<ticks, scraperVars, configVars, appVars>>

\* one choice of inputs for each thing a refresh can do: a scrape returns
\* something only from a scraper with a driver, and the save has an
\* outcome only when there is something to save
RefreshInputOk(setup, result, saveOutcome) ==
    /\ setup # "ok" => result = None
    /\ ~TruthyStr(result) => saveOutcome = "ok"

Next ==
    \/ \E d \in ClockSteps : Tick(d)
    \/ get_token_cached
    \/ \E setup \in SetupOutcomes, result \in ScrapeResults,
          seconds \in ScrapeSeconds, saveOutcome \in SaveOutcomes :
            /\ RefreshInputOk(setup, result, saveOutcome)
            /\ get_token_refresh(setup, result, seconds, saveOutcome)

Spec == Init /\ [][Next]_vars

----------------------------------------------------------------------------
(* Claims about the token cache, checked under Spec *)

\* the token_data a finished get_token call read, when it is a dict
HadDict == lastCall.path # "none" /\ lastCall.had # None
HadValue == lastCall.had[1].value
HadSourcedAt == lastCall.had[1].sourced_at

\* C1: a stored token with a non-empty value and a non-zero sourced_at is
\* used from the cache iff its age, now - sourced_at, is at most
\* TOKEN_EXPIRATION_SECONDS; an older one makes get_token refresh.
C1_TtlBoundary ==
    (HadDict /\ TruthyStr(HadValue) /\ TruthyNum(HadSourcedAt)) =>
        /\ (lastCall.path = "fast") <=>
             (lastCall.at - HadSourcedAt[1] <= TOKEN_EXPIRATION_SECONDS)
        /\ (lastCall.path = "refresh") <=>
             (lastCall.at - HadSourcedAt[1] > TOKEN_EXPIRATION_SECONDS)

\* a call served from the cache at age exactly TOKEN_EXPIRATION_SECONDS
C1_Witness ==
    /\ HadDict /\ TruthyStr(HadValue) /\ TruthyNum(HadSourcedAt)
    /\ lastCall.at - HadSourcedAt[1] = TOKEN_EXPIRATION_SECONDS
    /\ lastCall.path = "fast"

\* C2: a token that is absent, or whose value is missing or empty, or whose
\* sourced_at is missing or zero, is never used from the cache: get_token
\* takes the refresh path whatever the clock reads.
C2_MissingFieldInvalid ==
    (lastCall.path # "none" /\
       (\/ lastCall.had = None
        \/ ~TruthyStr(HadValue)
        \/ ~TruthyNum(HadSourcedAt))) =>
        lastCall.path = "refresh"

\* a refresh for a token with a value and sourced_at = 0, at a clock value
\* for which the age test alone would have passed
C2_Witness ==
    /\ HadDict /\ TruthyStr(HadValue) /\ HadSourcedAt = Some(0)
    /\ lastCall.at - 0 <= TOKEN_EXPIRATION_SECONDS
    /\ lastCall.path = "refresh"

\* C3: a get_token call that finds the cached token valid returns the
\* cached value and changes nothing else: no scraper is constructed, no
\* session opened, no time spent waiting, no write to the token in memory
\* or to the file.
C3_FastPathNoSideEffects ==
    [][(calls' = calls + 1 /\ _is_token_valid(data_token, now)) =>
          /\ lastCall'.outcome = "returned"
          /\ lastCall'.ret = data_token[1].value
          /\ UNCHANGED <<data_token, file, scrapers, openSessions, now,
                         scraperVars, configVars, appVars>>]_vars

\* a call served from the cache has returned the stored value
C3_Witness ==
    /\ lastCall.path = "fast"
    /\ lastCall.outcome = "returned"
    /\ lastCall.ret = Some("tok0")
    /\ data_token = lastCall.had

\* C4: a get_token call that finds the cached token invalid and whose
\* extraction yields None or raises ends by raising; it returns no value.
C4_FailedRefreshRaises ==
    (lastCall.path = "refresh" /\ lastCall.extracted = None) =>
        (lastCall.outcome = "raised" /\ lastCall.ret = None)

\* C5: a get_token call that opened a browser session has called its
\* release routine exactly once when it ends.
C5_SessionReleasedOnce ==
    (lastCall.path = "refresh" /\ BrowserStarted(lastCall.setup)) =>
        lastCall.closes = 1

\* C6: at most one browser session is open at any time.
C6_AtMostOneSession == openSessions <= 1

----------------------------------------------------------------------------
(* The browser session: AvnetTokenScraper (modules/token_fetch.py), driven *)
(* the way the __main__ block of token_fetch.py drives it: construct,      *)
(* scrape_random_value, close.  scrape_random_value is one step per        *)
(* browser operation; what the browser does at each is an input.           *)

InitScrape ==
    /\ Init
    /\ data_token = None

\* scraper = AvnetTokenScraper(...): __init__ up to _setup_driver
RunScript ==
    /\ pc = "idle"
    /\ scripts < MaxScripts
    /\ scripts' = scripts + 1
    /\ pc' = "init"
    /\ driver' = FALSE
    /\ trace' = <<>>
    /\ det' = NoDet
    /\ elem' = NoElem
    /\ new_token' = None
    /\ quitCalls' = 0
    /\ setups' = 0
    /\ faults' = {}
    /\ UNCHANGED <<configVars, appVars, acquirerVars, openSessions>>

SetupFault(outcome) ==
    CASE outcome = "webdriver_exception" -> "setup:webdriver_exception"
      [] outcome = "other_exception" -> "setup:other_exception"
      [] outcome = "stealth_webdriver_exception" ->
             "setup:stealth_webdriver_exception"
      [] outcome = "stealth_other_exception" ->
             "setup:stealth_other_exception"

\* a setup whose except clause leaves the half-made driver in place
_setup_driver_keeps_driver(outcome) ==
    /\ pc = "init"
    /\ CASE outcome = "ok" ->
              /\ driver' = TRUE
              /\ openSessions' = openSessions + 1
              /\ pc' = "scrape"
         [] outcome = "webdriver_exception" ->
              /\ driver' = TRUE
              /\ pc' = "scrape"
              /\ UNCHANGED openSessions
         [] outcome = "other_exception" ->
              /\ pc' = "idle"
              /\ UNCHANGED <<driver, openSessions>>
         [] outcome = "stealth_webdriver_exception" ->
              /\ driver' = TRUE
              /\ openSessions' = openSessions + 1
              /\ pc' = "scrape"
         [] outcome = "stealth_other_exception" ->
              /\ openSessions' = openSessions + 1
              /\ pc' = "idle"
              /\ UNCHANGED driver
    /\ setups' = setups + 1
    /\ faults' = IF outcome = "ok" THEN faults
                 ELSE faults \cup {SetupFault(outcome)}
    /\ UNCHANGED <<configVars, appVars, acquirerVars, trace, det, elem,
                   new_token,
                   quitCalls, scripts>>

\* the try block of _setup_driver
_setup_driver(outcome) ==
    /\ pc = "init"
    /\ CASE outcome = "ok" ->
              \* webdriver.Chrome(...) returned a driver
              /\ driver' = TRUE
              /\ openSessions' = openSessions + 1
              /\ pc' = "scrape"
         [] outcome = "webdriver_exception" ->
              \* except WebDriverException: self.driver = None
              /\ driver' = FALSE
              /\ pc' = "scrape"
              /\ UNCHANGED openSessions
         [] outcome = "other_exception" ->
              \* leaves the constructor: the except clause of __main__,
              \* then finally with scraper = None
              /\ pc' = "idle"
              /\ UNCHANGED <<driver, openSessions>>
         [] outcome = "stealth_webdriver_exception" ->
              \* the browser runs, a later statement of the try block
              \* raised: except WebDriverException: self.driver = None
              /\ driver' = FALSE
              /\ openSessions' = openSessions + 1
              /\ pc' = "scrape"
         [] outcome = "stealth_other_exception" ->
              \* the browser runs, what a later statement raised leaves
              \* the constructor
              /\ openSessions' = openSessions + 1
              /\ pc' = "idle"
              /\ UNCHANGED driver
    /\ setups' = setups + 1
    /\ faults' = IF outcome = "ok" THEN faults
                 ELSE faults \cup {SetupFault(outcome)}
    /\ UNCHANGED <<configVars, appVars, acquirerVars, trace, det, elem,
                   new_token,
                   quitCalls, scripts>>

\* scrape_random_value returns r
ScrapeReturns(r) ==
    /\ new_token' = r
    /\ pc' = "scraped"

\* a scrape without the driver guard: it tries to navigate in any case
Scrape_Get_unguarded(outcome, delay) ==
    /\ pc = "scrape"
    /\ ~driver => outcome = "error"
    /\ delay \in (IF outcome = "ok" THEN ReadingSeconds ELSE {0})
    /\ now' = now + delay
    /\ trace' = Append(trace, "get")
    /\ IF outcome = "ok"
       THEN /\ pc' = "check1"
            /\ UNCHANGED new_token
       ELSE ScrapeReturns(None)
    /\ faults' = IF outcome = "error"
                 THEN faults \cup {"get:error"} ELSE faults
    /\ UNCHANGED <<configVars, appVars, tokenVars, openSessions, driver,
                   det, elem,
                   quitCalls, scripts, setups>>

\* the driver guard, then driver.get(url) and the reading delay
Scrape_Get(outcome, delay) ==
    /\ pc = "scrape"
    /\ IF ~driver
       THEN /\ outcome = "ok"
            /\ delay = 0
            /\ ScrapeReturns(None)
            /\ UNCHANGED trace
       ELSE /\ trace' = Append(trace, "get")
            /\ IF outcome = "ok"
               THEN \* human_delay = random.uniform(2.5, 4.5)
                    /\ delay \in ReadingSeconds
                    /\ pc' = "check1"
                    /\ UNCHANGED new_token
               ELSE /\ delay = 0
                    /\ ScrapeReturns(None)
    /\ now' = now + delay
    /\ faults' = IF driver /\ outcome = "error"
                 THEN faults \cup {"get:error"} ELSE faults
    /\ UNCHANGED <<configVars, appVars, tokenVars, openSessions, driver,
                   det, elem,
                   quitCalls, scripts, setups>>

CheckEvent(verdict) == IF verdict THEN "check:challenged" ELSE "check:clear"

\* driver.current_url is read, and so can raise, only after the wait
\* found a signal
DetInputOk(probe, urlErr) == urlErr => probe \in Signals

\* what a detector run adds to the faults: something other than the
\* timeout was raised in the wait or in the current_url read
DetFaults(probe, urlErr) ==
    IF probe = "error" \/ urlErr THEN {"check:error"} ELSE {}

DetRecord(probe, url, urlErr) ==
    [ran |-> TRUE, probe |-> probe, url |-> url.has, urlErr |-> urlErr,
     verdict |-> _check_for_challenge(driver, probe, url, urlErr)]

\* if self._check_for_challenge(wait_time=10)
Scrape_Check1(probe, url, urlErr, waited) ==
    /\ pc = "check1"
    /\ waited \in WaitSeconds(probe = "timeout")
    /\ now' = now + waited
    /\ DetInputOk(probe, urlErr)
    /\ det' = DetRecord(probe, url, urlErr)
    /\ trace' = Append(trace, CheckEvent(det'.verdict))
    /\ pc' = IF det'.verdict THEN "hold" ELSE "body"
    /\ faults' = faults \cup DetFaults(probe, urlErr)
    /\ UNCHANGED <<configVars, appVars, tokenVars, openSessions, driver,
                   elem,
                   new_token, quitCalls, scripts, setups>>

\* time.sleep(60)
Scrape_Hold ==
    /\ pc = "hold"
    /\ now' = now + HOLD_SECONDS
    /\ trace' = Append(trace, "sleep60")
    /\ det' = NoDet
    /\ pc' = "check2"
    /\ UNCHANGED <<data_token, file, auth_token, lastCall, scrapers, calls,
                   ticks, openSessions, driver, elem, new_token, quitCalls,
                   scripts, setups, faults, configVars, appVars>>

\* the second check, going on to the body wait whatever the verdict
Scrape_Check2_goes_on(probe, url, urlErr, waited) ==
    /\ pc = "check2"
    /\ waited \in WaitSeconds(probe = "timeout")
    /\ now' = now + waited
    /\ DetInputOk(probe, urlErr)
    /\ det' = DetRecord(probe, url, urlErr)
    /\ trace' = Append(trace, CheckEvent(det'.verdict))
    /\ pc' = "body"
    /\ faults' = faults \cup DetFaults(probe, urlErr)
    /\ UNCHANGED <<configVars, appVars, tokenVars, openSessions, driver,
                   elem,
                   new_token, quitCalls, scripts, setups>>

\* a second check after which the run is given up whatever the verdict
Scrape_Check2_always_gives_up(probe, url, urlErr, waited) ==
    /\ pc = "check2"
    /\ waited \in WaitSeconds(probe = "timeout")
    /\ now' = now + waited
    /\ DetInputOk(probe, urlErr)
    /\ det' = DetRecord(probe, url, urlErr)
    /\ trace' = Append(trace, CheckEvent(det'.verdict))
    /\ ScrapeReturns(None)
    /\ faults' = faults \cup DetFaults(probe, urlErr)
    /\ UNCHANGED <<configVars, appVars, tokenVars, openSessions, driver,
                   elem,
                   quitCalls, scripts, setups>>

\* if self._check_for_challenge(wait_time=5): return None
Scrape_Check2(probe, url, urlErr, waited) ==
    /\ pc = "check2"
    /\ waited \in WaitSeconds(probe = "timeout")
    /\ now' = now + waited
    /\ DetInputOk(probe, urlErr)
    /\ det' = DetRecord(probe, url, urlErr)
    /\ trace' = Append(trace, CheckEvent(det'.verdict))
    /\ IF det'.verdict
       THEN ScrapeReturns(None)
       ELSE /\ pc' = "body"
            /\ UNCHANGED new_token
    /\ faults' = faults \cup DetFaults(probe, urlErr)
    /\ UNCHANGED <<configVars, appVars, tokenVars, openSessions, driver,
                   elem,
                   quitCalls, scripts, setups>>

WaitOutcomes == {"ok", "timeout", "error"}

WaitFault(step, outcome) ==
    CASE step = "wait_body" /\ outcome = "timeout" -> "wait_body:timeout"
      [] step = "wait_body" /\ outcome = "error" -> "wait_body:error"
      [] step = "wait_randomVal" /\ outcome = "timeout" ->
             "wait_randomVal:timeout"
      [] step = "wait_randomVal" /\ outcome = "error" ->
             "wait_randomVal:error"

\* a body wait whose timeout is taken for a loaded page
Scrape_WaitBody_ignores_timeout(outcome, waited) ==
    /\ pc = "body"
    /\ waited \in WaitSeconds(outcome = "timeout")
    /\ now' = now + waited
    /\ trace' = Append(trace, "wait_body")
    /\ det' = NoDet
    /\ IF outcome \in {"ok", "timeout"}
       THEN /\ pc' = "human"
            /\ UNCHANGED new_token
       ELSE ScrapeReturns(None)
    /\ faults' = IF outcome = "ok" THEN faults
                 ELSE faults \cup {WaitFault("wait_body", outcome)}
    /\ UNCHANGED <<configVars, appVars, tokenVars, openSessions, driver,
                   elem,
                   quitCalls, scripts, setups>>

\* self.wait.until(presence_of_element_located((By.TAG_NAME, "body")))
Scrape_WaitBody(outcome, waited) ==
    /\ pc = "body"
    /\ waited \in WaitSeconds(outcome = "timeout")
    /\ now' = now + waited
    /\ trace' = Append(trace, "wait_body")
    /\ det' = NoDet
    /\ IF outcome = "ok"
       THEN /\ pc' = "human"
            /\ UNCHANGED new_token
       ELSE ScrapeReturns(None)
    /\ faults' = IF outcome = "ok" THEN faults
                 ELSE faults \cup {WaitFault("wait_body", outcome)}
    /\ UNCHANGED <<configVars, appVars, tokenVars, openSessions, driver,
                   elem,
                   quitCalls, scripts, setups>>

HumanOutcomes == {"ok", "error_down", "error_top"}

\* a scroll that swallows what execute_script raises and goes on
_simulate_human_behavior_swallows(outcome, slept) ==
    /\ pc = "human"
    /\ slept \in HumanSeconds(outcome)
    /\ now' = now + slept
    /\ trace' = IF outcome = "error_down"
                THEN Append(trace, "scroll_down")
                ELSE trace \o <<"scroll_down", "scroll_top">>
    /\ pc' = "lookup"
    /\ faults' = IF outcome = "ok" THEN faults
                 ELSE faults \cup {"scroll:error"}
    /\ UNCHANGED <<configVars, appVars, tokenVars, openSessions, driver,
                   det, elem,
                   new_token, quitCalls, scripts, setups>>

\* a simulation that scrolls to the top first and then down
_simulate_human_behavior_top_first(outcome, slept) ==
    /\ pc = "human"
    /\ slept \in HumanSeconds(outcome)
    /\ now' = now + slept
    /\ trace' = IF outcome = "error_down"
                THEN Append(trace, "scroll_top")
                ELSE trace \o <<"scroll_top", "scroll_down">>
    /\ IF outcome = "ok"
       THEN /\ pc' = "lookup"
            /\ UNCHANGED new_token
       ELSE ScrapeReturns(None)
    /\ faults' = IF outcome = "ok" THEN faults
                 ELSE faults \cup {"scroll:error"}
    /\ UNCHANGED <<configVars, appVars, tokenVars, openSessions, driver,
                   det, elem,
                   quitCalls, scripts, setups>>

\* the two window.scrollTo scripts; either may raise
_simulate_human_behavior(outcome, slept) ==
    /\ pc = "human"
    /\ slept \in HumanSeconds(outcome)
    /\ now' = now + slept
    /\ trace' = IF outcome = "error_down"
                THEN Append(trace, "scroll_down")
                ELSE trace \o <<"scroll_down", "scroll_top">>
    /\ IF outcome = "ok"
       THEN /\ pc' = "lookup"
            /\ UNCHANGED new_token
       ELSE ScrapeReturns(None)
    /\ faults' = IF outcome = "ok" THEN faults
                 ELSE faults \cup {"scroll:error"}
    /\ UNCHANGED <<configVars, appVars, tokenVars, openSessions, driver,
                   det, elem,
                   quitCalls, scripts, setups>>

\* self.wait.until(presence_of_element_located((By.ID, "randomVal")))
Scrape_WaitRandomVal(outcome, waited) ==
    /\ pc = "lookup"
    /\ waited \in WaitSeconds(outcome = "timeout")
    /\ now' = now + waited
    /\ trace' = Append(trace, "wait_randomVal")
    /\ IF outcome = "ok"
       THEN /\ pc' = "attrs"
            /\ UNCHANGED new_token
       ELSE ScrapeReturns(None)
    /\ faults' = IF outcome = "ok" THEN faults
                 ELSE faults \cup {WaitFault("wait_randomVal", outcome)}
    /\ UNCHANGED <<configVars, appVars, tokenVars, openSessions, driver,
                   det, elem,
                   quitCalls, scripts, setups>>

\* placeholder and data-value are read, and so can raise, only when the
\* value read returned nothing truthy
AttrInputOk(value, errAt) ==
    (errAt \in {"placeholder", "data-value"}) => ~TruthyStr(value)

\* the get_attribute reads and the fallback
Scrape_ReadAttrs(value, placeholder, data_value, errAt) ==
    /\ pc = "attrs"
    /\ AttrInputOk(value, errAt)
    /\ trace' = Append(trace, "get_attribute")
    /\ elem' = [found |-> TRUE, value |-> value, placeholder |-> placeholder,
                data_value |-> data_value, errAt |-> errAt]
    /\ ScrapeReturns(ExtractAttr(value, placeholder, data_value, errAt))
    /\ faults' = IF errAt = "none" THEN faults
                 ELSE faults \cup {"get_attribute:error"}
    /\ UNCHANGED <<configVars, appVars, acquirerVars, openSessions, driver,
                   det,
                   quitCalls, scripts, setups>>

\* finally: if scraper: scraper.close()
close(slept) ==
    /\ pc = "scraped"
    /\ IF driver
       THEN \* time.sleep(random.uniform(1, 2)), then driver.quit()
            /\ slept \in ClosingSeconds
            /\ quitCalls' = quitCalls + 1
            /\ openSessions' = openSessions - 1
       ELSE /\ slept = 0
            /\ UNCHANGED <<quitCalls, openSessions>>
    /\ now' = now + slept
    /\ pc' = "idle"
    /\ UNCHANGED <<configVars, appVars, tokenVars, driver, trace, det, elem,
                   new_token, scripts, setups, faults>>

NextScrape ==
    \/ RunScript
    \/ \E o \in SetupOutcomes : _setup_driver(o)
    \/ \E o \in {"ok", "error"}, s \in ReadingPicks : Scrape_Get(o, s)
    \/ \E p \in Probes, u \in Urls, e \in BOOLEAN, w \in WaitPicks :
            Scrape_Check1(p, u, e, w)
    \/ Scrape_Hold
    \/ \E p \in Probes, u \in Urls, e \in BOOLEAN, w \in WaitPicks :
            Scrape_Check2(p, u, e, w)
    \/ \E o \in WaitOutcomes, w \in WaitPicks : Scrape_WaitBody(o, w)
    \/ \E o \in HumanOutcomes, s \in HumanPicks :
            _simulate_human_behavior(o, s)
    \/ \E o \in WaitOutcomes, w \in WaitPicks : Scrape_WaitRandomVal(o, w)
    \/ \E v \in AttrValues("valA"), p \in AttrValues("phB"),
          d \in AttrValues("dvC"), e \in AttrErrors :
            Scrape_ReadAttrs(v, p, d, e)
    \/ \E s \in ClosingPicks : close(s)

SpecScrape == InitScrape /\ [][NextScrape]_vars

\* scrape_random_value returns None or a non-empty string, as the summary
\* of the scrape in get_token_refresh assumes
ScrapeResultOK == new_token \in ScrapeResults

----------------------------------------------------------------------------
(* Claims about the browser session, checked under SpecScrape *)

ChallengedTwice ==
    Cardinality({i \in DOMAIN trace : trace[i] = "check:challenged"}) = 2

\* C7: when the detector reports a challenge both before and after the
\* 60 s hold, scrape_random_value returns None straight after the second
\* verdict: the run is navigation, check, one hold, check, and nothing
\* else (no further wait, no body wait, no scroll, no element lookup).
C7_ChallengeUnresolved ==
    ChallengedTwice =>
        /\ pc \in {"scraped", "idle"}
        /\ new_token = None
        /\ trace = <<"get", "check:challenged", "sleep60", "check:challenged">>

\* a scrape that has returned after two challenged verdicts
C7_Witness ==
    /\ pc = "scraped"
    /\ ChallengedTwice
    /\ new_token = None

\* C8: the detector reports a challenge whenever the current URL contains
\* cdn-cgi, challenge or captcha, also when no content signal appeared
\* within the wait (stated for detector runs in which nothing unexpected
\* is raised).
C8_UrlAloneIsChallenge ==
    (det.ran /\ det.probe # "error" /\ ~det.urlErr /\
       det.url \cap UrlFragments # {}) =>
        det.verdict

\* C9: every run of the detector ends with one of the two verdicts; a run
\* in which nothing unexpected is raised ends Challenged if one of the
\* content signals appeared within the wait and ends Clear if the wait
\* timed out with none of them.
C9_DetectorVerdict ==
    det.ran =>
        /\ det.verdict \in BOOLEAN
        /\ (det.probe \in Signals /\ ~det.urlErr) => det.verdict
        /\ det.probe = "timeout" => ~det.verdict

\* a detector run that ended Challenged on a content signal alone, at the
\* target URL
C9_Witness ==
    /\ det.ran
    /\ det.probe = "body:Verify you are human"
    /\ det.url = {}
    /\ det.verdict

\* C10: with the randomVal element located and its attributes read,
\* scrape_random_value returns the first non-empty of value, placeholder
\* and data-value, in that order, and None iff all three are empty.
C10_FallbackOrder ==
    (pc = "scraped" /\ elem.found /\ elem.errAt = "none") =>
        /\ TruthyStr(elem.value) => new_token = elem.value
        /\ (~TruthyStr(elem.value) /\ TruthyStr(elem.placeholder)) =>
              new_token = elem.placeholder
        /\ (~TruthyStr(elem.value) /\ ~TruthyStr(elem.placeholder) /\
              TruthyStr(elem.data_value)) => new_token = elem.data_value
        /\ (new_token = None) <=>
              (~TruthyStr(elem.value) /\ ~TruthyStr(elem.placeholder) /\
               ~TruthyStr(elem.data_value))

\* value and placeholder both populated: the value is returned
C10_Witness ==
    /\ pc = "scraped"
    /\ elem.found /\ elem.errAt = "none"
    /\ elem.value = Some("valA")
    /\ elem.placeholder = Some("phB")
    /\ new_token = Some("valA")

----------------------------------------------------------------------------
(* Errors and their handlers in scrape_random_value *)

\* errors raised outside the detector: they reach the handlers of
\* scrape_random_value (token_fetch.py 267-273)
OuterErrors ==
    {"get:error", "wait_body:error", "scroll:error", "wait_randomVal:error",
     "get_attribute:error"}

\* every error the automation layer can raise in a scrape
AllErrors == OuterErrors \cup {"check:error"}

\* C11 as stated: an error raised at any step of scrape_random_value,
\* challenge detection included, makes the call return None.
C11_AnyErrorYieldsNone ==
    (pc = "scraped" /\ faults \cap AllErrors # {}) => new_token = None

\* C11 amended: scrape_random_value always ends by returning a string or
\* None; an error raised at navigation, body wait, scrolling, element lookup
\* or attribute read makes it return None; an error raised inside the
\* challenge detection is absorbed there as the verdict Clear and the run
\* goes on from that verdict.
C11_ErrorsAbsorbed ==
    /\ pc = "scraped" => new_token \in ScrapeResults
    /\ (pc = "scraped" /\ faults \cap OuterErrors # {}) => new_token = None
    /\ (det.ran /\ (det.probe = "error" \/ det.urlErr)) => ~det.verdict

\* an attribute read raised after the placeholder had been read: None
C11_Witness ==
    /\ pc = "scraped"
    /\ "get_attribute:error" \in faults
    /\ elem.errAt = "data-value"
    /\ TruthyStr(elem.placeholder)
    /\ new_token = None

----------------------------------------------------------------------------
(* Termination of scrape_random_value *)

\* Every statement of scrape_random_value returns or raises after a bounded
\* time (driver.get and execute_script under the driver's own timeouts, each
\* wait.until under WebDriverWait(driver, 20), the sleeps are finite), and
\* the interpreter then runs the next statement: a step that stays enabled
\* is eventually taken.
SpecScrapeFair == SpecScrape /\ WF_vars(NextScrape)

\* positions inside scrape_random_value
ScrapeRunning ==
    {"scrape", "check1", "hold", "check2", "body", "human", "lookup", "attrs"}

Timeouts == {"wait_body:timeout", "wait_randomVal:timeout"}

\* C12: every scrape_random_value call that was started ends, and ends with
\* an extracted string or None; when the page-body wait or the wait for the
\* randomVal element ran out of time the call ends with None.
C12_Terminates ==
    /\ [](pc = "scraped" => new_token \in ScrapeResults)
    /\ []((pc = "scraped" /\ faults \cap Timeouts # {}) => new_token = None)
    /\ [](faults \cap Timeouts # {} => pc \notin ScrapeRunning)
    /\ (pc \in ScrapeRunning) ~> (pc = "scraped")

\* the wait for the randomVal element timed out after a resolved challenge
C12_Witness ==
    /\ pc = "scraped"
    /\ "wait_randomVal:timeout" \in faults
    /\ "sleep60" \in {trace[i] : i \in 1..Len(trace)}
    /\ new_token = None

----------------------------------------------------------------------------
(* More claims about the token cache, checked under Spec *)

\* the call just made was a refresh whose scrape returned a non-empty string
RefreshedOk(c) == c.path = "refresh" /\ TruthyStr(c.extracted)

\* C14: when the scrape returned a non-empty string and writing the
\* configuration file failed, at open or during the dump, get_token raises
\* nothing and returns the string just extracted.
C14_SaveFailureNonFatal ==
    (RefreshedOk(lastCall) /\ lastCall.save \in {"open_fail", "dump_fail"})
        => /\ lastCall.outcome = "returned"
           /\ lastCall.ret = lastCall.extracted
           /\ auth_token = lastCall.extracted

\* the dump failed half way and the call still returned the new token
C14_Witness ==
    /\ RefreshedOk(lastCall)
    /\ lastCall.save = "dump_fail"
    /\ ~file.intact
    /\ lastCall.outcome = "returned"
    /\ lastCall.ret = Some("valA")

\* C18: the stored token and the file change only in a get_token call that
\* refreshed with a non-empty extraction, and such a call writes once; a
\* call on the fast path, and a refresh whose scraper could not be built or
\* whose scrape returned None, leave the stored token and the file as they
\* were.
C18_StoreWrittenOnlyOnRefresh ==
    [][ /\ (data_token' # data_token \/ file' # file)
            => /\ calls' = calls + 1
               /\ RefreshedOk(lastCall')
        /\ calls' = calls + 1
            => /\ lastCall'.writes = IF RefreshedOk(lastCall') THEN 1 ELSE 0
               /\ ~RefreshedOk(lastCall')
                    => /\ data_token' = data_token
                       /\ file' = file
      ]_vars

\* a refresh whose scrape returned None over a stored, expired token
C18_Witness ==
    /\ lastCall.path = "refresh"
    /\ lastCall.setup = "ok"
    /\ lastCall.extracted = None
    /\ lastCall.writes = 0
    /\ TruthyDict(lastCall.had)
    /\ data_token = lastCall.had
    /\ file.token = lastCall.had

\* C19: a refresh whose scrape returned a non-empty string v leaves
\* {value: v, sourced_at: the clock at the time of storing} as the stored
\* token (and in the file when the write succeeds) and returns v; the
\* get_token call that follows, made while the clock is at most
\* TOKEN_EXPIRATION_SECONDS past sourced_at, returns v again and constructs
\* no scraper.
C19_RefreshThenFastPath ==
    [][ calls' = calls + 1
        => /\ RefreshedOk(lastCall')
                => /\ data_token' = Dict(lastCall'.extracted, Some(now'))
                   /\ now' >= lastCall'.at + MinValueSeconds
                   /\ lastCall'.save = "ok"
                        => file' = [intact |-> TRUE, token |-> data_token']
                   /\ lastCall'.outcome = "returned"
                   /\ lastCall'.ret = lastCall'.extracted
           /\ ( /\ RefreshedOk(lastCall)
                /\ now - data_token[1].sourced_at[1]
                        <= TOKEN_EXPIRATION_SECONDS )
                => /\ lastCall'.path = "fast"
                   /\ lastCall'.outcome = "returned"
                   /\ lastCall'.ret = lastCall.ret
                   /\ scrapers' = scrapers
                   /\ openSessions' = openSessions
      ]_vars

\* the second call, later but within the lifetime, served from the token
\* the first call scraped and stored
C19_Witness ==
    /\ calls = 2
    /\ scrapers = 1
    /\ lastCall.path = "fast"
    /\ lastCall.held = lastCall.ret
    /\ lastCall.ret = Some("valA")
    /\ lastCall.at > lastCall.had[1].sourced_at[1]
    /\ lastCall.had[1].sourced_at[1] >= Now0 + MinValueSeconds

----------------------------------------------------------------------------
(* More claims about the browser session, checked under SpecScrape *)

SetupFaults == {SetupFault(o) : o \in SetupOutcomes \ {"ok"}}

\* C15 as stated: whenever webdriver.Chrome cannot create the browser the
\* constructor fails towards its caller; it never completes, so no
\* scrape_random_value call is made on the object.
C15_SetupFailurePropagates ==
    faults \cap SetupFaults # {} => pc \notin {"scrape", "scraped"}

\* the try block of _setup_driver raised a WebDriverException
SetupAbsorbed ==
    faults \cap {"setup:webdriver_exception",
                 "setup:stealth_webdriver_exception"} # {}

\* the try block of _setup_driver raised something else
SetupLeft ==
    faults \cap {"setup:other_exception",
                 "setup:stealth_other_exception"} # {}

\* C15 amended: webdriver.Chrome is called once per scraper.  When it, or
\* a later statement of the same try block, raises a WebDriverException
\* the constructor completes with driver = None: scrape_random_value then
\* returns None without any browser operation and close() quits nothing.
\* Only an exception of another kind leaves the constructor, and then no
\* scrape is made.
C15_SetupFailureAbsorbed ==
    /\ setups <= 1
    /\ SetupAbsorbed
         => /\ pc \in {"scrape", "scraped", "idle"}
            /\ ~driver
            /\ trace = <<>>
            /\ new_token = None
            /\ quitCalls = 0
    /\ faults \cap {"setup:stealth_webdriver_exception",
                    "setup:stealth_other_exception"} # {}
         => openSessions >= 1   \* the browser that was started stays
    /\ SetupLeft
         => /\ pc = "idle"
            /\ ~driver
            /\ trace = <<>>
            /\ new_token = None
            /\ quitCalls = 0

\* scrape_random_value has returned on a scraper whose driver is None
C15_Witness ==
    /\ pc = "scraped"
    /\ "setup:webdriver_exception" \in faults
    /\ setups = 1
    /\ ~driver
    /\ new_token = None

Count(ev) == Cardinality({i \in DOMAIN trace : trace[i] = ev})

\* the verdict of the n-th detector run of the scrape, which is the event
\* at position 2 (first run) or 4 (second run) of the trace
Verdict(n) == IF Len(trace) >= 2 * n THEN trace[2 * n] ELSE "none"

\* C20: in a scrape the detector runs at most twice and the 60 s sleep
\* happens at most once; it happens exactly when the first verdict is
\* challenged, and then the detector runs a second time; when the second
\* verdict is clear the run goes on with the wait for the page body.
C20_OneRetryCycle ==
    /\ Count("check:challenged") + Count("check:clear") <= 2
    /\ Count("sleep60") <= 1
    /\ pc = "hold" => Verdict(1) = "check:challenged" /\ Count("sleep60") = 0
    /\ (pc # "hold" /\ Verdict(1) = "check:challenged")
         => /\ trace[3] = "sleep60"
            /\ pc # "check2" => Verdict(2) \in {"check:challenged",
                                                 "check:clear"}
    /\ Verdict(1) # "check:challenged"
         => Count("sleep60") = 0 /\ Count("check:challenged") = 0
    /\ (Verdict(1) = "check:challenged" /\ Verdict(2) = "check:clear")
         => \/ pc = "body" /\ Len(trace) = 4
            \/ Len(trace) >= 5 /\ trace[5] = "wait_body"

\* a scrape that returned the value after a challenge that cleared in the
\* 60 s
C20_Witness ==
    /\ pc = "scraped"
    /\ Verdict(1) = "check:challenged"
    /\ trace[3] = "sleep60"
    /\ Verdict(2) = "check:clear"
    /\ new_token = Some("valA")

----------------------------------------------------------------------------
(* The configuration file: json.dump(self.data, f, indent=4) and            *)
(* json.load(f) of ConfigManager (main.py 20-62).  A file is a sequence of  *)
(* characters; a document is an object, a string, a number or null.  A      *)
(* string is the sequence of its characters; a number is its integer part   *)
(* and the digits of its fraction without trailing zeros, which is how      *)
(* repr() prints the float that time.time() returns.                        *)

JNull == [t |-> "null", s |-> <<>>, i |-> 0, f |-> <<>>, items |-> <<>>]
JStr(s) == [t |-> "str", s |-> s, i |-> 0, f |-> <<>>, items |-> <<>>]
JNum(i, f) == [t |-> "num", s |-> <<>>, i |-> i, f |-> f, items |-> <<>>]
JObj(items) == [t |-> "obj", s |-> <<>>, i |-> 0, f |-> <<>>, items |-> items]

\* one entry of a dict, in insertion order
Item(k, v) == [k |-> k, v |-> v]

\* dict.get(key): None when the key is absent
RECURSIVE GetFrom(_, _, _)
GetFrom(items, key, n) ==
    IF n > Len(items) THEN None
    ELSE IF items[n].k = key THEN Some(items[n].v)
    ELSE GetFrom(items, key, n + 1)

DictGet(obj, key) == GetFrom(obj.items, key, 1)

\* d[key] = v: an existing key keeps its place, a new key goes last
DictSet(obj, key, v) ==
    IF DictGet(obj, key) = None
    THEN JObj(Append(obj.items, Item(key, v)))
    ELSE JObj([n \in 1..Len(obj.items) |->
                 IF obj.items[n].k = key THEN Item(key, v)
                 ELSE obj.items[n]])

DigitChars == <<"0", "1", "2", "3", "4", "5", "6", "7", "8", "9">>
IsDigit(c) == \E d \in 1..10 : DigitChars[d] = c
DigitValue(c) == (CHOOSE d \in 1..10 : DigitChars[d] = c) - 1

\* the decimal digits of a natural number
RECURSIVE IntToDigits(_)
IntToDigits(n) ==
    IF n < 10 THEN <<DigitChars[n + 1]>>
    ELSE Append(IntToDigits(n \div 10), DigitChars[(n % 10) + 1])

\* a character outside ASCII, and the newline
EAcute == "U+00E9"
Newline == "\n"
Quote == "\""
Backslash == "\\"

\* a string encoder that writes every character as it is
EscapeChar_raw(c) == <<c>>

\* json's string encoder (ensure_ascii=True) for one character
EscapeChar(c) ==
    CASE c = Quote -> <<Backslash, Quote>>
      [] c = Backslash -> <<Backslash, Backslash>>
      [] c = Newline -> <<Backslash, "n">>
      [] c = EAcute -> <<Backslash, "u", "0", "0", "e", "9">>
      [] OTHER -> <<c>>

RECURSIVE EncodeChars(_, _)
EncodeChars(s, n) ==
    IF n > Len(s) THEN <<>>
    ELSE EscapeChar(s[n]) \o EncodeChars(s, n + 1)

DumpString(s) == <<Quote>> \o EncodeChars(s, 1) \o <<Quote>>

\* float.__repr__: integer part, point, fraction ("0" when there is none)
DumpNumber(i, f) ==
    IntToDigits(i) \o <<".">> \o (IF f = <<>> THEN <<"0">> ELSE f)

IndentWidth == 4

RECURSIVE Spaces(_)
Spaces(n) == IF n = 0 THEN <<>> ELSE <<" ">> \o Spaces(n - 1)

NewlineIndent(level) == <<Newline>> \o Spaces(IndentWidth * level)

\* json.dump(value, f, indent=4)
RECURSIVE DumpValue(_, _)
RECURSIVE DumpMembers(_, _, _)
DumpValue(v, level) ==
    CASE v.t = "null" -> <<"n", "u", "l", "l">>
      [] v.t = "str" -> DumpString(v.s)
      [] v.t = "num" -> DumpNumber(v.i, v.f)
      [] v.t = "obj" ->
            IF v.items = <<>> THEN <<"{", "}">>
            ELSE <<"{">> \o DumpMembers(v.items, 1, level + 1)
                 \o NewlineIndent(level) \o <<"}">>

DumpMembers(items, n, level) ==
    IF n > Len(items) THEN <<>>
    ELSE NewlineIndent(level) \o DumpString(items[n].k) \o <<":", " ">>
         \o DumpValue(items[n].v, level)
         \o (IF n < Len(items) THEN <<",">> ELSE <<>>)
         \o DumpMembers(items, n + 1, level)

json_dump(doc) == DumpValue(doc, 0)

\* the result of a parse step: the value read and the position after it
ParseFail == [ok |-> FALSE, v |-> JNull, at |-> 0]
ParseOk(v, at) == [ok |-> TRUE, v |-> v, at |-> at]

IsWs(c) == c \in {" ", Newline}

RECURSIVE SkipWs(_, _)
SkipWs(cs, at) ==
    IF at <= Len(cs) /\ IsWs(cs[at]) THEN SkipWs(cs, at + 1) ELSE at

HexChars == {"a", "b", "c", "d", "e", "f"}
IsHex(c) == IsDigit(c) \/ c \in HexChars

\* the character a \uXXXX escape stands for
Unescape4(h) == IF h = <<"0", "0", "e", "9">> THEN EAcute ELSE "U+other"

\* the characters of a string literal from position at, the opening quote
\* already read; a raw newline inside the literal is an error
RECURSIVE ParseChars(_, _, _)
ParseChars(cs, at, acc) ==
    IF at > Len(cs) THEN ParseFail
    ELSE IF cs[at] = Quote THEN ParseOk(JStr(acc), at + 1)
    ELSE IF cs[at] = Newline THEN ParseFail
    ELSE IF cs[at] # Backslash
         THEN ParseChars(cs, at + 1, Append(acc, cs[at]))
    ELSE IF at + 1 > Len(cs) THEN ParseFail
    ELSE IF cs[at + 1] \in {Quote, Backslash}
         THEN ParseChars(cs, at + 2, Append(acc, cs[at + 1]))
    ELSE IF cs[at + 1] = "n"
         THEN ParseChars(cs, at + 2, Append(acc, Newline))
    ELSE IF /\ cs[at + 1] = "u"
            /\ at + 5 <= Len(cs)
            /\ \A k \in 2..5 : IsHex(cs[at + k])
         THEN ParseChars(cs, at + 6,
                         Append(acc, Unescape4(SubSeq(cs, at + 2, at + 5))))
    ELSE ParseFail

\* the digits from position at: their value and the position after them
RECURSIVE ParseDigits(_, _, _)
ParseDigits(cs, at, acc) ==
    IF at <= Len(cs) /\ IsDigit(cs[at])
    THEN ParseDigits(cs, at + 1, 10 * acc + DigitValue(cs[at]))
    ELSE [i |-> acc, at |-> at]

RECURSIVE DigitRun(_, _)
DigitRun(cs, at) ==
    IF at <= Len(cs) /\ IsDigit(cs[at]) THEN DigitRun(cs, at + 1) ELSE at

RECURSIVE StripZeros(_)
StripZeros(f) ==
    IF f # <<>> /\ f[Len(f)] = "0" THEN StripZeros(SubSeq(f, 1, Len(f) - 1))
    ELSE f

\* a number: "0" or digits without a leading zero, then optionally a point
\* and digits
ParseNumber(cs, at) ==
    LET int == IF cs[at] = "0" THEN [i |-> 0, at |-> at + 1]
               ELSE ParseDigits(cs, at, 0)
        end == DigitRun(cs, int.at + 1)
    IN  IF int.at <= Len(cs) /\ cs[int.at] = "."
        THEN IF end = int.at + 1 THEN ParseFail
             ELSE ParseOk(JNum(int.i,
                               StripZeros(SubSeq(cs, int.at + 1, end - 1))),
                          end)
        ELSE ParseOk(JNum(int.i, <<>>), int.at)

\* json's decoder for the documents of the model: objects, strings,
\* numbers and null
RECURSIVE ParseValue(_, _)
RECURSIVE ParseMembers(_, _, _)
ParseValue(cs, at0) ==
    LET at == SkipWs(cs, at0)
    IN  IF at > Len(cs) THEN ParseFail
        ELSE IF cs[at] = Quote THEN ParseChars(cs, at + 1, <<>>)
        ELSE IF IsDigit(cs[at]) THEN ParseNumber(cs, at)
        ELSE IF cs[at] = "n"
             THEN IF at + 3 <= Len(cs)
                     /\ SubSeq(cs, at, at + 3) = <<"n", "u", "l", "l">>
                  THEN ParseOk(JNull, at + 4)
                  ELSE ParseFail
        ELSE IF cs[at] = "{"
             THEN LET nx == SkipWs(cs, at + 1)
                  IN  IF nx <= Len(cs) /\ cs[nx] = "}"
                      THEN ParseOk(JObj(<<>>), nx + 1)
                      ELSE ParseMembers(cs, nx, JObj(<<>>))
        ELSE ParseFail

\* "key": value pairs up to the closing brace; a repeated key keeps the
\* last value
ParseMembers(cs, at0, obj) ==
    LET at == SkipWs(cs, at0)
    IN  IF at > Len(cs) \/ cs[at] # Quote THEN ParseFail
        ELSE
        LET key == ParseChars(cs, at + 1, <<>>)
        IN  IF ~key.ok THEN ParseFail
            ELSE
            LET colon == SkipWs(cs, key.at)
            IN  IF colon > Len(cs) \/ cs[colon] # ":" THEN ParseFail
                ELSE
                LET val == ParseValue(cs, colon + 1)
                IN  IF ~val.ok THEN ParseFail
                    ELSE
                    LET sep == SkipWs(cs, val.at)
                        obj2 == DictSet(obj, key.v.s, val.v)
                    IN  IF sep > Len(cs) THEN ParseFail
                        ELSE IF cs[sep] = "}" THEN ParseOk(obj2, sep + 1)
                        ELSE IF cs[sep] = ","
                             THEN ParseMembers(cs, sep + 1, obj2)
                        ELSE ParseFail

\* json.load(f): one value, then nothing but whitespace
json_load(cs) ==
    LET r == ParseValue(cs, 1)
    IN  IF r.ok /\ SkipWs(cs, r.at) = Len(cs) + 1 THEN r ELSE ParseFail

\* the keys of config.json
K_sheets == <<"s", "h", "e", "e", "t", "s">>
K_credentials_path ==
    <<"c", "r", "e", "d", "e", "n", "t", "i", "a", "l", "s", "_", "p", "a",
      "t", "h">>
K_sheet_id == <<"s", "h", "e", "e", "t", "_", "i", "d">>
K_worksheet_name ==
    <<"w", "o", "r", "k", "s", "h", "e", "e", "t", "_", "n", "a", "m", "e">>
K_token == <<"t", "o", "k", "e", "n">>
K_value == <<"v", "a", "l", "u", "e">>
K_sourced_at ==
    <<"s", "o", "u", "r", "c", "e", "d", "_", "a", "t">>

\* a key that the program does not know
K_note == <<"n", "o", "t", "e">>

\* {"value": token_value, "sourced_at": sourced_at} of set_token_data
TokenEntry(token_value, sourced_at) ==
    JObj(<<Item(K_value, JStr(token_value)),
           Item(K_sourced_at, JNum(sourced_at.i, sourced_at.f))>>)

\* a "sheets" section with all three settings
SheetsOk ==
    JObj(<<Item(K_credentials_path, JStr(<<"c", ".", "j">>)),
           Item(K_sheet_id, JStr(<<"i", "d", "1">>)),
           Item(K_worksheet_name, JStr(<<"W", " ", "1">>))>>)

\* a "sheets" section without worksheet_name
SheetsShort ==
    JObj(<<Item(K_credentials_path, JStr(<<"c", ".", "j">>)),
           Item(K_sheet_id, JStr(<<"i", "d", "1">>))>>)

----------------------------------------------------------------------------
(* ConfigManager over config.json: construction (_load_config with          *)
(* _validate_config), get_token_data and set_token_data (_save_config).     *)

MaxSaves == 1
MaxLoads == 2

\* token values and time stamps that set_token_data is called with
TokenValues ==
    {<<"a", "b">>, <<"t", Quote>>, <<Backslash, "n">>, <<Newline, EAcute>>}
Stamps ==
    {[i |-> 1800, f |-> <<>>], [i |-> 0, f |-> <<"5">>],
     [i |-> 1730000000, f |-> <<"2", "5">>]}

ConfigDoc(sheets) == JObj(<<Item(K_sheets, sheets)>>)

\* documents config.json may hold when the program starts
InitDocs ==
    {JObj(<<>>), JStr(<<"a">>), ConfigDoc(JNull), ConfigDoc(JStr(<<"a">>)),
     ConfigDoc(SheetsShort), ConfigDoc(SheetsOk),
     DictSet(ConfigDoc(SheetsOk), K_token, JNull),
     DictSet(ConfigDoc(SheetsOk), K_token,
             TokenEntry(<<"o", "l", "d">>, [i |-> 1, f |-> <<>>])),
     JObj(<<Item(K_sheets, SheetsOk),
            Item(K_token,
                 TokenEntry(<<"o", "l", "d">>, [i |-> 1, f |-> <<>>])),
            Item(K_note, JStr(<<"x", Quote>>))>>)}

\* the first n characters of a text
Prefix(cs, n) == SubSeq(cs, 1, n)

\* where a write may stop: before the first character, half way, one
\* character short of the end
Cuts == {"start", "half", "last"}

CutAt(cs, cut) ==
    CASE cut = "start" -> 0
      [] cut = "half" -> Len(cs) \div 2
      [] cut = "last" -> Len(cs) - 1
      [] OTHER -> Len(cs)

TruncPoints(cs) == {CutAt(cs, cut) : cut \in Cuts}

\* texts that are not JSON: the empty file and cut-off documents
BrokenTexts ==
    {<<>>, <<"{">>, <<"{", "}", "}">>}
    \cup {Prefix(json_dump(ConfigDoc(SheetsOk)), n) :
            n \in TruncPoints(json_dump(ConfigDoc(SheetsOk)))}

InitFiles ==
    {None} \cup {Some(json_dump(d)) : d \in InitDocs}
           \cup {Some(cs) : cs \in BrokenTexts}

\* d.get(key) is not None
Has(obj, key) == DictGet(obj, key) # None /\ DictGet(obj, key)[1].t # "null"

\* _validate_config: the assertion or the attribute lookup that fails
_validate_config(data) ==
    IF data.t # "obj" THEN "AttributeError"
    ELSE IF ~Has(data, K_sheets) THEN "AssertionError"
    ELSE LET sheets == DictGet(data, K_sheets)[1]
         IN  IF sheets.t # "obj" THEN "AttributeError"
             ELSE IF /\ Has(sheets, K_credentials_path)
                     /\ Has(sheets, K_sheet_id)
                     /\ Has(sheets, K_worksheet_name)
                  THEN "ok"
                  ELSE "AssertionError"

\* a load that starts from an empty configuration when the file is missing
_load_config_defaults(f) ==
    IF f = None THEN [outcome |-> "ok", data |-> Some(JObj(<<>>))]
    ELSE LET r == json_load(f[1])
         IN  IF ~r.ok THEN [outcome |-> "JSONDecodeError", data |-> None]
             ELSE IF _validate_config(r.v) # "ok"
                  THEN [outcome |-> _validate_config(r.v), data |-> None]
                  ELSE [outcome |-> "ok", data |-> Some(r.v)]

\* _load_config: open, json.load, _validate_config; every error is logged
\* and raised again, and then no ConfigManager comes into being
_load_config(f) ==
    IF f = None THEN [outcome |-> "FileNotFoundError", data |-> None]
    ELSE LET r == json_load(f[1])
         IN  IF ~r.ok THEN [outcome |-> "JSONDecodeError", data |-> None]
             ELSE IF _validate_config(r.v) # "ok"
                  THEN [outcome |-> _validate_config(r.v), data |-> None]
                  ELSE [outcome |-> "ok", data |-> Some(r.v)]

\* self.data.get("token")
get_token_data(data) ==
    IF Has(data, K_token) THEN DictGet(data, K_token) ELSE None

InitConfig ==
    /\ now = Now0
    /\ data_token = None
    /\ file = [intact |-> TRUE, token |-> None]
    /\ auth_token = None
    /\ lastCall = NoCall
    /\ scrapers = 0
    /\ openSessions = 0
    /\ calls = 0
    /\ ticks = 0
    /\ pc = "idle"
    /\ driver = FALSE
    /\ trace = <<>>
    /\ det = NoDet
    /\ elem = NoElem
    /\ new_token = None
    /\ quitCalls = 0
    /\ scripts = 0
    /\ setups = 0
    /\ faults = {}
    /\ cfgFile \in InitFiles
    /\ cfgData = None
    /\ cfgLast = NoCfgOp
    /\ cfgSaved = None
    /\ cfgSaves = 0
    /\ cfgLoads = 0
    /\ appPc = "start"
    /\ appLog = <<>>
    /\ codes = <<>>
    /\ fi = 1
    /\ results = <<>>

\* ConfigManager(config_path): self.data = self._load_config()
ConfigManager_init ==
    /\ cfgLoads < MaxLoads
    /\ cfgLoads' = cfgLoads + 1
    /\ cfgData' = _load_config(cfgFile).data
    /\ cfgLast' = [op |-> "load", outcome |-> _load_config(cfgFile).outcome,
                   before |-> cfgFile, entry |-> None, opens |-> 1]
    /\ UNCHANGED <<cfgFile, cfgSaved, cfgSaves, acquirerVars, openSessions,
                   scraperVars, appVars>>

\* how the write of _save_config can end: completed; open() failed; the
\* dump failed after some characters, the error is logged; the process was
\* killed after some characters
WriteOutcomes == {"ok", "open_fail", "dump_fail", "killed"}

\* a set_token_data that writes a document holding the token alone
set_token_data_drops_rest(token_value, sourced_at, outcome, cut) ==
    LET data == JObj(<<Item(K_token, TokenEntry(token_value, sourced_at))>>)
        text == json_dump(data)
        wrote == Prefix(text, CutAt(text, cut))
    IN  /\ cfgSaves < MaxSaves
        /\ cfgData # None
        /\ cut \in Cuts <=> outcome \in {"dump_fail", "killed"}
        /\ cfgSaves' = cfgSaves + 1
        /\ cfgData' = IF outcome = "killed" THEN None ELSE Some(data)
        \* open(path, "w") empties the file before anything is written
        /\ cfgFile' = IF outcome = "open_fail" THEN cfgFile ELSE Some(wrote)
        /\ cfgSaved' = CASE outcome = "ok" ->
                                Some(TokenEntry(token_value, sourced_at))
                         [] outcome = "open_fail" -> cfgSaved
                         [] OTHER -> None
        /\ cfgLast' = [op |-> "save", outcome |-> outcome, before |-> cfgFile,
                       entry |-> Some(TokenEntry(token_value, sourced_at)),
                       opens |-> 1]
        /\ UNCHANGED <<cfgLoads, acquirerVars, openSessions, scraperVars,
                       appVars>>

\* set_token_data(token_value, sourced_at), with the write of _save_config
\* ending as outcome at the position cut
set_token_data(token_value, sourced_at, outcome, cut) ==
    LET data == DictSet(cfgData[1], K_token,
                        TokenEntry(token_value, sourced_at))
        text == json_dump(data)
        wrote == Prefix(text, CutAt(text, cut))
    IN  /\ cfgSaves < MaxSaves
        /\ cfgData # None
        /\ cut \in Cuts <=> outcome \in {"dump_fail", "killed"}
        /\ cfgSaves' = cfgSaves + 1
        /\ cfgData' = IF outcome = "killed" THEN None ELSE Some(data)
        \* open(path, "w") empties the file before anything is written
        /\ cfgFile' = IF outcome = "open_fail" THEN cfgFile ELSE Some(wrote)
        /\ cfgSaved' = CASE outcome = "ok" ->
                                Some(TokenEntry(token_value, sourced_at))
                         [] outcome = "open_fail" -> cfgSaved
                         [] OTHER -> None
        /\ cfgLast' = [op |-> "save", outcome |-> outcome, before |-> cfgFile,
                       entry |-> Some(TokenEntry(token_value, sourced_at)),
                       opens |-> 1]
        /\ UNCHANGED <<cfgLoads, acquirerVars, openSessions, scraperVars,
                       appVars>>

NextConfig ==
    \/ ConfigManager_init
    \/ \E token_value \in TokenValues, sourced_at \in Stamps,
          outcome \in WriteOutcomes, cut \in Cuts \cup {"none"} :
            set_token_data(token_value, sourced_at, outcome, cut)

SpecConfig == InitConfig /\ [][NextConfig]_vars

----------------------------------------------------------------------------
(* Claims about the configuration file, checked under SpecConfig *)

\* what json.load makes of the file as it is now
FileLoaded == json_load(cfgFile[1])

\* C13: after set_token_data, however its write ended, config.json is
\* either what it was before the call or a complete document that holds
\* the new token entry.
C13_SaveAtomic ==
    cfgLast.op = "save"
        => \/ cfgFile = cfgLast.before
           \/ /\ FileLoaded.ok
              /\ get_token_data(FileLoaded.v) = cfgLast.entry

\* C16: after set_token_data(v, s) the same ConfigManager returns
\* {value: v, sourced_at: s} from get_token_data; and when the write
\* completed, a ConfigManager constructed afterwards loads the file without
\* error and returns an entry with the same value and the same sourced_at.
C16_SaveLoadRoundTrip ==
    /\ (cfgLast.op = "save" /\ cfgData # None)
         => get_token_data(cfgData[1]) = cfgLast.entry
    /\ (cfgLast.op = "save" /\ cfgLast.outcome = "ok")
         => cfgSaved = cfgLast.entry
    /\ (cfgLast.op = "load" /\ cfgSaved # None)
         => /\ cfgLast.outcome = "ok"
            /\ get_token_data(cfgData[1]) = cfgSaved

\* a second ConfigManager has read back a token with a backslash in its
\* value and a fraction in its time stamp
C16_Witness ==
    /\ cfgLast.op = "load"
    /\ cfgLoads = 2
    /\ cfgSaved = Some(TokenEntry(<<Backslash, "n">>,
                                  [i |-> 1730000000, f |-> <<"2", "5">>]))
    /\ get_token_data(cfgData[1]) = cfgSaved

\* C17: constructing a ConfigManager opens the file once; a missing file
\* ends it with FileNotFoundError, a text that is not JSON with
\* JSONDecodeError, a document without the required sheets settings with the
\* error of _validate_config, and then there is no ConfigManager.  A valid
\* document without a token gives a ConfigManager whose get_token_data is
\* None, which _is_token_valid rejects, so that get_token refreshes.
C17_LoadErrors ==
    cfgLast.op = "load"
        => /\ cfgLast.opens = 1
           /\ cfgLast.before = None => cfgLast.outcome = "FileNotFoundError"
           /\ (cfgLast.before # None /\ cfgLast.before[1] \in BrokenTexts)
                => cfgLast.outcome = "JSONDecodeError"
           /\ (cfgLast.before # None /\ ~json_load(cfgLast.before[1]).ok)
                => cfgLast.outcome = "JSONDecodeError"
           /\ ( /\ cfgLast.before # None
                /\ json_load(cfgLast.before[1]).ok
                /\ json_load(cfgLast.before[1]).v \in
                     {JObj(<<>>), ConfigDoc(JNull), ConfigDoc(SheetsShort)} )
                => cfgLast.outcome = "AssertionError"
           /\ cfgLast.outcome # "ok" => cfgData = None
           /\ cfgLast.outcome = "ok"
                => /\ cfgData # None
                   /\ cfgData[1] = json_load(cfgLast.before[1]).v
                   /\ ~Has(cfgData[1], K_token)
                        => /\ get_token_data(cfgData[1]) = None
                           /\ ~_is_token_valid(get_token_data(cfgData[1]),
                                               now)

\* a ConfigManager could not be constructed from the file that a killed
\* save left behind
C17_Witness ==
    /\ cfgLast.op = "load"
    /\ cfgSaves = 1
    /\ cfgLast.outcome = "JSONDecodeError"
    /\ cfgData = None

----------------------------------------------------------------------------
(* Claims about whole get_token calls, checked under Spec *)

\* C21: a get_token call constructs at most one AvnetTokenScraper and calls
\* scrape_random_value at most once, whether the scrape returned a string,
\* returned None or the construction raised; a call served from the cache
\* constructs none.
C21_NoRetry ==
    [][ calls' = calls + 1
        => /\ lastCall'.built <= 1
           /\ lastCall'.scrapes <= lastCall'.built
           /\ scrapers' - scrapers <= 1
           /\ openSessions' - openSessions <= 1
           /\ lastCall'.path = "fast"
                => lastCall'.built = 0 /\ scrapers' = scrapers
           /\ lastCall'.path = "refresh" => lastCall'.built = 1
      ]_vars

\* a refresh whose only scrape returned None, ending in the raise
C21_Witness ==
    /\ lastCall.path = "refresh"
    /\ lastCall.setup = "ok"
    /\ lastCall.extracted = None
    /\ lastCall.outcome = "raised"
    /\ lastCall.built = 1
    /\ lastCall.scrapes = 1
    /\ scrapers = 1

----------------------------------------------------------------------------
(* Claims about the order of a scrape, checked under SpecScrape *)

CheckEvents == {"check:challenged", "check:clear"}

\* the browser operations of a scrape that runs to its end, for the
\* verdicts c1 and c2 of the detector
FullRun(c1, c2) ==
    <<"get", c1>>
    \o (IF c1 = "check:challenged" THEN <<"sleep60", c2>> ELSE <<>>)
    \o <<"wait_body", "scroll_down", "scroll_top", "wait_randomVal",
         "get_attribute">>

IsPrefix(p, q) == Len(p) <= Len(q) /\ SubSeq(q, 1, Len(p)) = p

Occurs(ev) == \E i \in DOMAIN trace : trace[i] = ev

\* C22: the operations of a scrape are an initial part of: navigation,
\* challenge detection (with one hold and a second detection after a
\* challenged verdict), body wait, scroll down, scroll to top, element
\* lookup, attribute read.  A scrape that gave up on an unresolved challenge
\* or on a body-wait timeout made no scroll and no element lookup.
C22_FixedOrder ==
    /\ \E c1 \in CheckEvents, c2 \in CheckEvents :
            IsPrefix(trace, FullRun(c1, c2))
    /\ (ChallengedTwice \/ "wait_body:timeout" \in faults)
         => /\ ~Occurs("scroll_down")
            /\ ~Occurs("scroll_top")
            /\ ~Occurs("wait_randomVal")
            /\ pc \in {"scraped", "idle"}
            /\ new_token = None

\* a scrape that went through every operation after a clear first verdict
C22_Witness ==
    /\ pc = "scraped"
    /\ trace = FullRun("check:clear", "check:clear")
    /\ new_token = Some("phB")

----------------------------------------------------------------------------
(* Claims about the stored token over several calls, checked under Spec *)

\* no token is stored, or the stored token has a non-empty value
StoreOk(token_data) == token_data = None \/ TruthyStr(token_data[1].value)

Stamped(token_data) ==
    token_data # None /\ token_data[1].sourced_at # None

\* C23: no step takes a store that is empty or holds a non-empty value to
\* a store holding a token without a value; every write stamps the token
\* with the clock as read when it is stored, which is not before the call
\* began and not before the stamp of the token it replaces.
C23_StoreInvariant ==
    [][ /\ StoreOk(data_token) => StoreOk(data_token')
        /\ now' >= now
        /\ data_token' # data_token
            => /\ TruthyStr(data_token'[1].value)
               /\ data_token'[1].sourced_at = Some(now')
               /\ data_token'[1].sourced_at[1] >= lastCall'.at
               /\ Stamped(data_token)
                    => data_token'[1].sourced_at[1]
                         >= data_token[1].sourced_at[1]
      ]_vars

\* the second of two writes, made after the first token had expired
C23_Witness ==
    /\ calls = 2
    /\ RefreshedOk(lastCall)
    /\ TruthyDict(lastCall.had)
    /\ lastCall.had[1].sourced_at # None
    /\ lastCall.had[1].sourced_at[1] >= Now0 + MinValueSeconds
    /\ data_token[1].sourced_at[1] > lastCall.had[1].sourced_at[1]
    /\ StoreOk(data_token)

----------------------------------------------------------------------------
(* More claims about the configuration file, checked under SpecConfig *)

NotToken(item) == item.k # K_token

\* the entries of a document other than "token", in their order
WithoutToken(doc) == SelectSeq(doc.items, NotToken)

\* C24: set_token_data leaves every entry of self.data other than "token"
\* as it was, and a write that completes puts the whole document into the
\* file: the file then holds those same entries and the new token entry.
C24_OnlyTokenChanges ==
    [][ cfgSaves' = cfgSaves + 1
        => /\ cfgData' # None
                => /\ WithoutToken(cfgData'[1]) = WithoutToken(cfgData[1])
                   /\ get_token_data(cfgData'[1]) = cfgLast'.entry
           /\ cfgLast'.outcome = "ok"
                => /\ json_load(cfgFile'[1]).ok
                   /\ WithoutToken(json_load(cfgFile'[1]).v)
                        = WithoutToken(cfgData[1])
                   /\ json_load(cfgFile'[1]).v = cfgData'[1]
      ]_vars

\* a completed save into a document that also holds a key of its own
C24_Witness ==
    /\ cfgLast.op = "save"
    /\ cfgLast.outcome = "ok"
    /\ DictGet(cfgData[1], K_note) = Some(JStr(<<"x", Quote>>))
    /\ DictGet(cfgData[1], K_sheets) = Some(SheetsOk)
    /\ cfgFile = Some(json_dump(cfgData[1]))

----------------------------------------------------------------------------
(* More claims about the detector and the missing driver, checked under     *)
(* SpecScrape                                                               *)

\* the detector run just made raised something other than the timeout
DetErrored == det.ran /\ (det.probe = "error" \/ det.urlErr)

\* C25: a detector run in which something other than the wait timeout was
\* raised gives the verdict Clear: the scrape neither returns nor sleeps on
\* it but stands before the body wait, and it makes the body wait next.
C25_DetectorErrorIsClear ==
    /\ DetErrored
         => /\ ~det.verdict
            /\ pc = "body"
            /\ trace[Len(trace)] = "check:clear"
            /\ Len(trace) = 2 => ~Occurs("sleep60")
    /\ ("check:error" \in faults /\ pc # "body")
         => /\ Occurs("wait_body")
            /\ Occurs("check:clear")

\* the first detector run raised, there was no hold, and the scrape went
\* on to return the value
C25_Witness ==
    /\ pc = "scraped"
    /\ "check:error" \in faults
    /\ Verdict(1) = "check:clear"
    /\ ~Occurs("sleep60")
    /\ new_token = Some("valA")

----------------------------------------------------------------------------
(* get_token with its scrape made step by step: _refresh_token constructs   *)
(* the AvnetTokenScraper and calls scrape_random_value, whose steps are the *)
(* actions of the browser session above.  A process runs the application *)
(* or the __main__ block of token_fetch.py, not both.                       *)

\* a get_token call is inside _refresh_token
Refreshing == lastCall.path = "pending"

\* what the constructor of the running scraper did
SetupOf(fs) ==
    IF "setup:webdriver_exception" \in fs THEN "webdriver_exception"
    ELSE IF "setup:other_exception" \in fs THEN "other_exception"
    ELSE IF "setup:stealth_webdriver_exception" \in fs
    THEN "stealth_webdriver_exception"
    ELSE IF "setup:stealth_other_exception" \in fs
    THEN "stealth_other_exception"
    ELSE "ok"

\* get_token finds no valid token and enters _refresh_token:
\* scraper = AvnetTokenScraper(headless=True)
Refresh_Begin ==
    /\ pc = "idle"
    /\ ~Refreshing
    /\ scripts = 0
    /\ calls < MaxCalls
    /\ ~_is_token_valid(data_token, now)
    /\ lastCall' = [NoCall EXCEPT !.path = "pending", !.held = auth_token,
                                  !.had = data_token, !.at = now]
    /\ pc' = "init"
    /\ driver' = FALSE
    /\ trace' = <<>>
    /\ det' = NoDet
    /\ elem' = NoElem
    /\ new_token' = None
    /\ quitCalls' = 0
    /\ setups' = 0
    /\ faults' = {}
    /\ UNCHANGED <<now, data_token, file, auth_token, scrapers, calls, ticks,
                   openSessions, scripts, configVars, appVars>>

\* the rest of _refresh_token and of get_token, once the constructor has
\* raised or scrape_random_value has returned: store a truthy result, then
\* raise when no token is held, else return it
Refresh_End(saveOutcome) ==
    LET setup == SetupOf(faults)
        wrote == ~ConstructorRaises(setup) /\ TruthyStr(new_token)
    IN  /\ Refreshing
        /\ pc = "scraped" \/ (pc = "idle" /\ ConstructorRaises(setup))
        /\ ~wrote => saveOutcome = "ok"
        /\ IF ConstructorRaises(setup)
           THEN \* except Exception: self.auth_token = None
                /\ auth_token' = None
                /\ UNCHANGED <<data_token, file>>
           ELSE IF wrote
           THEN \* set_token_data(new_token, time.time())
                /\ data_token' = Dict(new_token, Some(now))
                /\ file' = _save_config(file, data_token', saveOutcome)
                /\ auth_token' = new_token
           ELSE UNCHANGED <<data_token, file, auth_token>>
        /\ scrapers' = IF ConstructorRaises(setup) THEN scrapers
                       ELSE scrapers + 1
        /\ calls' = calls + 1
        /\ lastCall' = [path |-> "refresh", valid |-> FALSE, setup |-> setup,
                        extracted |-> new_token,
                        outcome |-> GetTokenEnd(auth_token').outcome,
                        ret |-> GetTokenEnd(auth_token').ret,
                        writes |-> IF wrote THEN 1 ELSE 0,
                        save |-> IF wrote THEN saveOutcome ELSE "n/a",
                        closes |-> 0,   \* _refresh_token has no close()
                        built |-> 1,
                        scrapes |-> IF ConstructorRaises(setup) THEN 0
                                    ELSE 1,
                        held |-> lastCall.held, had |-> lastCall.had,
                        at |-> lastCall.at]
        \* the scraper was a local of _refresh_token: it is gone, the
        \* browser it started is not
        /\ pc' = "idle"
        /\ driver' = FALSE
        /\ trace' = <<>>
        /\ det' = NoDet
        /\ elem' = NoElem
        /\ new_token' = None
        /\ quitCalls' = 0
        /\ setups' = 0
        /\ faults' = {}
        /\ UNCHANGED <<now, ticks, openSessions, scripts, configVars,
                       appVars>>

\* get_token served from the cache, between two scrapes
Cached_Call ==
    pc = "idle" /\ ~Refreshing /\ scripts = 0 /\ get_token_cached

\* the __main__ block of token_fetch.py, outside get_token
Script_Run == lastCall = NoCall /\ RunScript
Script_close(slept) == ~Refreshing /\ close(slept)

\* the durations the steps are given here: the least of each sleep
QuickReading == {0, 3}
QuickHuman == {3}
QuickClosing == {0, 1}

NextRefresh ==
    \/ Refresh_Begin
    \/ \E s \in SaveOutcomes : Refresh_End(s)
    \/ Cached_Call
    \/ Script_Run
    \/ \E s \in QuickClosing : Script_close(s)
    \/ \E o \in SetupOutcomes : _setup_driver(o)
    \/ \E o \in {"ok", "error"}, s \in QuickReading : Scrape_Get(o, s)
    \/ \E p \in Probes, u \in Urls, e \in BOOLEAN, w \in WaitPicks :
            Scrape_Check1(p, u, e, w)
    \/ Scrape_Hold
    \/ \E p \in Probes, u \in Urls, e \in BOOLEAN, w \in WaitPicks :
            Scrape_Check2(p, u, e, w)
    \/ \E o \in WaitOutcomes, w \in WaitPicks : Scrape_WaitBody(o, w)
    \/ \E o \in HumanOutcomes, s \in QuickHuman :
            _simulate_human_behavior(o, s)
    \/ \E o \in WaitOutcomes, w \in WaitPicks : Scrape_WaitRandomVal(o, w)
    \/ \E v \in AttrValues("valA"), p \in AttrValues("phB"),
          d \in AttrValues("dvC"), e \in AttrErrors :
            Scrape_ReadAttrs(v, p, d, e)

SpecRefresh == InitScrape /\ [][NextRefresh]_vars

----------------------------------------------------------------------------
(* Claims about get_token with its scrape, checked under SpecRefresh *)

\* the setup of the running scraper raised a WebDriverException, from
\* webdriver.Chrome or from a later statement: its driver is None
NoDriver == SetupAbsorbed

\* C28: on a scraper whose driver is None, scrape_random_value returns None
\* with no navigation, no detector run and no wait, _check_for_challenge
\* returns False whatever the page would show, and close() calls no quit;
\* a get_token call that got such a scraper stores nothing, and raises when
\* the manager held no token before.
C28_NoDriverNoOp ==
    /\ NoDriver
         => /\ ~driver
            /\ trace = <<>>
            /\ ~det.ran
            /\ ~elem.found
            /\ new_token = None
            /\ quitCalls = 0
            /\ Refreshing => now = lastCall.at
    /\ \A p \in Probes, u \in Urls, e \in BOOLEAN :
            ~_check_for_challenge(FALSE, p, u, e)
    /\ (lastCall.path = "refresh"
        /\ lastCall.setup \in {"webdriver_exception",
                                "stealth_webdriver_exception"})
         => /\ lastCall.extracted = None
            /\ lastCall.writes = 0
            /\ data_token = lastCall.had
            /\ auth_token = lastCall.held
            /\ lastCall.held = None => lastCall.outcome = "raised"

\* the first get_token of a manager has raised after a scrape on a scraper
\* without a driver
C28_Witness ==
    /\ lastCall.path = "refresh"
    /\ lastCall.setup = "webdriver_exception"
    /\ lastCall.held = None
    /\ lastCall.outcome = "raised"
    /\ calls = 1
    /\ pc = "idle"
    /\ trace = <<>>

----------------------------------------------------------------------------
(* ProductInfoFetcher (scrape.py): one request per product number, the      *)
(* extraction of the first product of the response, and the results dict.  *)

\* a product of the response; a field is None when its key is missing
ProductFull ==
    [ItemNumber |-> Some("I1"), ManufacturerName |-> Some("M1"),
     Stock |-> Some("7"), sap_originating_countryoforigin |-> Some("TW")]
ProductBare ==
    [ItemNumber |-> None, ManufacturerName |-> None, Stock |-> None,
     sap_originating_countryoforigin |-> None]

\* what the request for one product number comes back with: raised is a
\* requests.RequestException of post or raise_for_status, IsSuccessFull,
\* Data.Count and Data.Products are read from the body
Responses ==
    [raised : BOOLEAN, IsSuccessFull : BOOLEAN, Count : {0, 1},
     Products : {<<>>, <<ProductFull>>, <<ProductBare>>}]

\* the outcome of a call: a value, or the exception that leaves it
Returned(v) == [ex |-> "none", v |-> v]
Raised(ex) == [ex |-> ex, v |-> None]

\* fetch_single_product: the response body, or APIRequestError
fetch_single_product(resp) ==
    IF resp.raised THEN Raised("APIRequestError")
    ELSE IF ~resp.IsSuccessFull THEN Raised("APIRequestError")
    ELSE Returned(resp)

\* first_result.get(key, "")
FieldOr(field) == IF field = None THEN "" ELSE field[1]

\* extract_product_info: the four fields of the first product, or
\* ProductNotFoundError; Products[0] of an empty list is an IndexError
extract_product_info(api_response) ==
    IF api_response.Count >= 1
    THEN IF api_response.Products = <<>> THEN Raised("IndexError")
         ELSE LET first_result == api_response.Products[1]
              IN  Returned(<<FieldOr(first_result.ItemNumber),
                             FieldOr(first_result.ManufacturerName),
                             FieldOr(first_result.Stock),
                             FieldOr(
                               first_result.sap_originating_countryoforigin)
                           >>)
    ELSE Raised("ProductNotFoundError")

\* the body of the try in the loop of fetch_multiple_products
FetchAndExtract(resp) ==
    IF fetch_single_product(resp).ex # "none" THEN fetch_single_product(resp)
    ELSE extract_product_info(fetch_single_product(resp).v)

\* the exceptions that the loop turns into a result entry
CaughtInLoop == {"APIRequestError", "ProductNotFoundError"}

\* the entry written to results[product_number]
ResultEntry(outcome) ==
    IF outcome.ex = "none"
    THEN [success |-> TRUE, data |-> Some(outcome.v), error |-> None]
    ELSE [success |-> FALSE, data |-> None, error |-> Some(outcome.ex)]

\* results[product_number] = entry
ResultsSet(rs, product_number, entry) ==
    DictSet(JObj(rs), product_number, entry).items

----------------------------------------------------------------------------
(* ProductUpdaterApp.run (main.py 140-168): connect to the sheet, get the   *)
(* token, read the product codes, fetch them one by one, clear the data     *)
(* columns, write the new data.  An exception at any step ends the run in   *)
(* one of its except clauses.                                               *)

MaxCodes == 2

\* a cell of column A: its text without the surrounding blanks, and
\* whether it has such blanks
Cells ==
    {[text |-> "", pad |-> TRUE], [text |-> "P1", pad |-> FALSE],
     [text |-> "P1", pad |-> TRUE], [text |-> "P2", pad |-> FALSE]}

\* column A as col_values returns it: nothing at all, or the header cell
\* and up to MaxCodes cells below it
Columns ==
    {<<>>} \cup
    UNION {[1..(n + 1) -> Cells] : n \in 0..MaxCodes}

\* code.strip()
Strip(cell) == cell.text

NonBlank(cell) == Strip(cell) # ""

\* get_product_codes(start_row): the stripped non-blank cells from
\* start_row on
get_product_codes(col_a_values, start_row) ==
    IF Len(col_a_values) >= start_row
    THEN LET kept == SelectSeq(SubSeq(col_a_values, start_row,
                                      Len(col_a_values)), NonBlank)
         IN  [n \in 1..Len(kept) |-> Strip(kept[n])]
    ELSE <<>>

StartRow == 2

AppStep(to, event) ==
    /\ appPc' = to
    /\ appLog' = Append(appLog, event)

InitApp ==
    /\ Init
    /\ data_token \in {None, Dict(Some("tok0"), Some(Now0))}

\* initialize_sheets_manager: GoogleSheetsManager(...) and get_sheet_info
App_InitSheets(ok) ==
    /\ appPc = "start"
    /\ IF ok THEN AppStep("token", "sheets")
       ELSE AppStep("done", "sheets_failed")
    /\ UNCHANGED <<codes, fi, results, acquirerVars, openSessions,
                   scraperVars, configVars>>

\* initialize_product_fetcher: auth_token = get_token()
App_get_token_cached ==
    /\ appPc = "token"
    /\ calls = 0
    /\ get_token_cached

App_get_token_refresh(setup, result, seconds, saveOutcome) ==
    /\ appPc = "token"
    /\ calls = 0
    /\ get_token_refresh(setup, result, seconds, saveOutcome)

\* a run that goes on without a token when get_token raised
App_TokenDone_goes_on ==
    /\ appPc = "token"
    /\ calls = 1
    /\ IF lastCall.outcome = "raised"
       THEN AppStep("codes", "token_raised")
       ELSE AppStep("codes", "token")
    /\ UNCHANGED <<codes, fi, results, acquirerVars, openSessions,
                   scraperVars, configVars>>

\* get_token has returned or raised: ProductInfoFetcher(auth_token), or
\* the except RuntimeError clause of run
App_TokenDone ==
    /\ appPc = "token"
    /\ calls = 1
    /\ IF lastCall.outcome = "raised"
       THEN AppStep("done", "token_raised")
       ELSE AppStep("codes", "token")
    /\ UNCHANGED <<codes, fi, results, acquirerVars, openSessions,
                   scraperVars, configVars>>

\* product_codes = get_product_codes(start_row=2); the read may fail
App_GetCodes(col_a_values, ok) ==
    /\ appPc = "codes"
    /\ IF ok
       THEN /\ AppStep("fetch", "codes")
            /\ codes' = get_product_codes(col_a_values, StartRow)
       ELSE /\ AppStep("done", "codes_failed")
            /\ col_a_values = <<>>
            /\ UNCHANGED codes
    /\ fi' = 1
    /\ results' = <<>>
    /\ UNCHANGED <<acquirerVars, openSessions, scraperVars, configVars>>

\* a loop that stops at the first product number that fails
Fetch_One_stops(resp) ==
    LET outcome == FetchAndExtract(resp)
    IN  /\ appPc = "fetch"
        /\ fi <= Len(codes)
        /\ IF outcome.ex = "none"
           THEN /\ results' = ResultsSet(results, codes[fi],
                                         ResultEntry(outcome))
                /\ fi' = fi + 1
                /\ UNCHANGED <<appPc, appLog>>
           ELSE IF outcome.ex \in CaughtInLoop
           THEN /\ results' = ResultsSet(results, codes[fi],
                                         ResultEntry(outcome))
                /\ fi' = Len(codes) + 1
                /\ UNCHANGED <<appPc, appLog>>
           ELSE /\ AppStep("done", "fetch_raised")
                /\ UNCHANGED <<fi, results>>
        /\ UNCHANGED <<codes, acquirerVars, openSessions, scraperVars,
                       configVars>>

\* one round of the loop of fetch_multiple_products
Fetch_One(resp) ==
    LET outcome == FetchAndExtract(resp)
    IN  /\ appPc = "fetch"
        /\ fi <= Len(codes)
        /\ IF outcome.ex \in CaughtInLoop \cup {"none"}
           THEN /\ results' = ResultsSet(results, codes[fi],
                                         ResultEntry(outcome))
                /\ fi' = fi + 1
                /\ UNCHANGED <<appPc, appLog>>
           ELSE \* not caught in the loop: leaves fetch_multiple_products
                \* and ends run in `except Exception`
                /\ AppStep("done", "fetch_raised")
                /\ UNCHANGED <<fi, results>>
        /\ UNCHANGED <<codes, acquirerVars, openSessions, scraperVars,
                       configVars>>

\* return results, and get_results_dataframe(results)
Fetch_Return ==
    /\ appPc = "fetch"
    /\ fi > Len(codes)
    /\ AppStep("clear", "fetch_returned")
    /\ UNCHANGED <<codes, fi, results, acquirerVars, openSessions,
                   scraperVars, configVars>>

\* clear_data_columns(start_col="B", end_col="H")
App_Clear(ok) ==
    /\ appPc = "clear"
    /\ appLog' = Append(appLog, "clear")
    /\ appPc' = IF ok THEN "update" ELSE "done"
    /\ UNCHANGED <<codes, fi, results, acquirerVars, openSessions,
                   scraperVars, configVars>>

\* update_sheet_with_dataframe(df, start_row=2, start_col="B")
App_Update(ok) ==
    /\ appPc = "update"
    /\ appLog' = Append(appLog, "update")
    /\ appPc' = "done"
    /\ UNCHANGED <<codes, fi, results, acquirerVars, openSessions,
                   scraperVars, configVars>>

NextApp ==
    \/ \E ok \in BOOLEAN : App_InitSheets(ok)
    \/ App_get_token_cached
    \/ \E setup \in SetupOutcomes, result \in ScrapeResults,
          seconds \in ScrapeSeconds, saveOutcome \in SaveOutcomes :
            /\ RefreshInputOk(setup, result, saveOutcome)
            /\ App_get_token_refresh(setup, result, seconds, saveOutcome)
    \/ App_TokenDone
    \/ \E col_a_values \in Columns, ok \in BOOLEAN :
            App_GetCodes(col_a_values, ok)
    \/ \E resp \in Responses : Fetch_One(resp)
    \/ Fetch_Return
    \/ \E ok \in BOOLEAN : App_Clear(ok)
    \/ \E ok \in BOOLEAN : App_Update(ok)

SpecApp == InitApp /\ [][NextApp]_vars

----------------------------------------------------------------------------
(* The results of fetch_multiple_products.                                  *)

ResultKeys(rs) == {rs[n].k : n \in 1..Len(rs)}

\* the product numbers the loop has gone through
Processed == {codes[n] : n \in 1..(fi - 1)}

AllCodes == {codes[n] : n \in 1..Len(codes)}

\* a well-formed entry: success with data and no error, or failure with
\* an error and no data
EntryOk(entry) ==
    \/ entry.success /\ entry.data # None /\ entry.error = None
    \/ ~entry.success /\ entry.data = None /\ entry.error # None

AppOccurs(ev) == \E n \in DOMAIN appLog : appLog[n] = ev

AppPos(ev) == CHOOSE n \in DOMAIN appLog : appLog[n] = ev

\* C27: the results hold exactly one entry per distinct product number
\* gone through so far, each entry is a success with data and no error or
\* a failure with an error and no data, and when fetch_multiple_products
\* has returned every product number of the input has its entry, whatever
\* APIRequestError or ProductNotFoundError occurred on the way.
C27_OneEntryPerProduct ==
    /\ ResultKeys(results) = Processed
    /\ Cardinality(ResultKeys(results)) = Len(results)
    /\ \A n \in 1..Len(results) : EntryOk(results[n].v)
    /\ AppOccurs("fetch_returned") => ResultKeys(results) = AllCodes

\* fetch_multiple_products returned for two distinct product numbers, the
\* first of which failed and the second of which succeeded
C27_Witness ==
    /\ AppOccurs("fetch_returned")
    /\ Len(codes) = 2
    /\ codes[1] # codes[2]
    /\ Len(results) = 2
    /\ ~results[1].v.success
    /\ results[2].v.success

\* C26: the data columns are cleared or updated only after the token was
\* acquired and fetch_multiple_products returned, a clear precedes every
\* update, and a run whose token acquisition raised neither clears nor
\* updates.
C26_ClearAndUpdateLast ==
    /\ AppOccurs("clear") =>
          /\ AppOccurs("token") /\ AppPos("token") < AppPos("clear")
          /\ AppOccurs("fetch_returned")
          /\ AppPos("fetch_returned") < AppPos("clear")
          /\ lastCall.outcome = "returned"
          /\ auth_token # None
    /\ AppOccurs("update") =>
          AppOccurs("clear") /\ AppPos("clear") < AppPos("update")
    /\ (AppOccurs("token_raised") \/ lastCall.outcome = "raised") =>
          ~AppOccurs("clear") /\ ~AppOccurs("update")

\* a run that refreshed its token, fetched, cleared and updated
C26_Witness ==
    /\ appPc = "done"
    /\ lastCall.path = "refresh"
    /\ appLog = <<"sheets", "token", "codes", "fetch_returned", "clear",
                  "update">>

====
